---------------------------- MODULE Spec2Model ----------------------------
(***************************************************************************)
(* Model of the screen-monitoring assistant:                               *)
(*   - the credential rotator and the detection client                     *)
(*     (services/geminiService, src/unnamed/part_000),                     *)
(*   - the monitoring loop of the App component (src/unnamed/part_001).    *)
(*                                                                         *)
(* JavaScript strings are sequences of one-character strings, so that      *)
(* split / trim / indexOf / replace are computed and not assumed.          *)
(* null / undefined results are the empty sequence <<>>, a present value v *)
(* is the one-element sequence <<v>>.                                      *)
(***************************************************************************)
EXTENDS Integers, Sequences, FiniteSets, TLC

(***************************************************************************)
(* Bounds of the model.                                                    *)
(***************************************************************************)
\* raw comma-separated pieces of a credential config string
MaxTokens == 3
\* calls of the rotator counted with one unchanged config string
MaxCalls == 4

(***************************************************************************)
(* JavaScript string helpers.                                              *)
(***************************************************************************)
\* characters matched by \s (String.prototype.trim and the regexp class)
Whitespace == {" ", "\n"}

\* String.prototype.indexOf(c): 1-based position of the first c, 0 if none
RECURSIVE IndexFrom(_, _, _)
IndexFrom(s, c, i) ==
  IF i > Len(s) THEN 0
  ELSE IF s[i] = c THEN i
  ELSE IndexFrom(s, c, i + 1)

IndexOf(s, c) == IndexFrom(s, c, 1)

\* String.prototype.split(sep): always at least one piece
RECURSIVE Split(_, _)
Split(s, sep) ==
  LET i == IndexOf(s, sep) IN
    IF i = 0 THEN <<s>>
    ELSE <<SubSeq(s, 1, i - 1)>> \o Split(SubSeq(s, i + 1, Len(s)), sep)

RECURSIVE TrimStart(_)
TrimStart(s) ==
  IF s # <<>> /\ Head(s) \in Whitespace THEN TrimStart(Tail(s)) ELSE s

RECURSIVE TrimEnd(_)
TrimEnd(s) ==
  IF s # <<>> /\ s[Len(s)] \in Whitespace
  THEN TrimEnd(SubSeq(s, 1, Len(s) - 1)) ELSE s

\* mutant: trim() left out
Trim_None(s) == s

\* String.prototype.trim
Trim(s) == TrimEnd(TrimStart(s))

\* Array.prototype.map applied to a sequence
MapSeq(Op(_), xs) == [i \in 1..Len(xs) |-> Op(xs[i])]

\* Array.prototype.filter(k => k.length > 0)
RECURSIVE NonEmptyOnly(_)
NonEmptyOnly(xs) ==
  IF xs = <<>> THEN <<>>
  ELSE IF Len(Head(xs)) > 0 THEN <<Head(xs)>> \o NonEmptyOnly(Tail(xs))
  ELSE NonEmptyOnly(Tail(xs))

\* Array.prototype.join(',')
RECURSIVE JoinComma(_)
JoinComma(xs) ==
  IF xs = <<>> THEN <<>>
  ELSE IF Len(xs) = 1 THEN xs[1]
  ELSE xs[1] \o <<",">> \o JoinComma(Tail(xs))

(***************************************************************************)
(* State.                                                                  *)
(***************************************************************************)
VARIABLES
  \* module state of the credential rotator (part_000 lines 4-6)
  currentKeyIndex, lastApiKeyString, parsedKeys,
  \* observation of the last rotator call: its argument, what it returned,
  \* the number of calls answered from the cached string since that string
  \* was adopted, the rotation index the call found, and whether its
  \* argument differed from the string cached when it was made
  rotArg, rotRet, rotCalls, rotPrevIndex, rotChanged,
  \* the checkFrameForTarget calls whose remote call has not answered yet
  inflight,
  \* observation of the last settled checkFrameForTarget call, until its
  \* caller has taken the result: <<>> or <<[args, invoked, remote, outcome]>>
  detObs,
  \* React state of App (part_001 lines 29-35)
  status, targetImages, stream, logs, config,
  \* refs of App (lines 62-63): the interval id held by intervalRef is
  \* "null", "live" (a running timer) or "cleared" (a timer that was
  \* cancelled, its id still in the ref)
  intervalRef, isProcessingRef,
  \* live interval timers whose id intervalRef no longer holds
  orphanTimers,
  \* the capture track ("none", "live", "ended") and the value of `stream`
  \* in the closure of its onended handler (lines 205-208)
  track, onendedStream,
  \* what the overlay canvas shows: "clear" or "box"
  overlay,
  \* observation of the alert tone: whether the last handler run called
  \* playAlert (line 262)
  alertObs,
  \* the entry 'gamescout_config' of localStorage as setItem last wrote
  \* it, kept as <<cfg>> for the text JSON.stringify(cfg) (line 54)
  stored,
  \* observation of the last startup: what getItem returned (line 37),
  \* <<>> for null and <<text>> for an entry
  loadObs

rotVars == <<currentKeyIndex, lastApiKeyString, parsedKeys>>
rotObs  == <<rotArg, rotRet, rotCalls, rotPrevIndex, rotChanged>>
detVars == <<inflight, detObs>>
appVars == <<status, targetImages, stream, logs, config, intervalRef,
             isProcessingRef, orphanTimers, track, onendedStream, overlay,
             alertObs, stored, loadObs>>
vars    == <<rotVars, rotObs, detVars, appVars>>

(***************************************************************************)
(* Credential rotator: getNextClient.                                      *)
(***************************************************************************)
\* apiKeyString.split(',').map(k => k.trim()).filter(k => k.length > 0)
ParseKeys(apiKeyString) == NonEmptyOnly(MapSeq(Trim, Split(apiKeyString, ",")))

\* mutant: the index is not advanced
NextKeyIndex_Stuck(index, length) == index

\* mutant: the wrap is off by one
NextKeyIndex_OffByOne(index, length) == (index + 1) % (length + 1)

\* currentKeyIndex = (currentKeyIndex + 1) % parsedKeys.length
NextKeyIndex(index, length) == (index + 1) % length

\* the rotator's state as one record
Rotator == [currentKeyIndex  |-> currentKeyIndex,
            lastApiKeyString |-> lastApiKeyString,
            parsedKeys       |-> parsedKeys]

\* mutant: the index is kept when it still fits the new pool
Reparse_KeepIndex(rot, apiKeyString) ==
  IF apiKeyString # rot.lastApiKeyString
  THEN [currentKeyIndex  |-> IF rot.currentKeyIndex < Len(ParseKeys(apiKeyString))
                             THEN rot.currentKeyIndex ELSE 0,
        lastApiKeyString |-> apiKeyString,
        parsedKeys       |-> ParseKeys(apiKeyString)]
  ELSE rot

\* mutant: the pool is derived again and the index reset on every call
Reparse_Always(rot, apiKeyString) ==
  [currentKeyIndex  |-> 0,
   lastApiKeyString |-> apiKeyString,
   parsedKeys       |-> ParseKeys(apiKeyString)]

\* "If keys changed, re-parse and reset index"
Reparse(rot, apiKeyString) ==
  IF apiKeyString # rot.lastApiKeyString
  THEN [currentKeyIndex  |-> 0,
        lastApiKeyString |-> apiKeyString,
        parsedKeys       |-> ParseKeys(apiKeyString)]
  ELSE rot

\* getNextClient(apiKeyString): the client returned (<<>> for null, <<key>>
\* for new GoogleGenAI({apiKey: key})) and the rotator's state afterwards
GetNextClient(rot, apiKeyString) ==
  IF apiKeyString = <<>> THEN [client |-> <<>>, rot |-> rot]
  ELSE LET r == Reparse(rot, apiKeyString) IN
    IF Len(r.parsedKeys) = 0 THEN [client |-> <<>>, rot |-> r]
    ELSE [client |-> <<r.parsedKeys[r.currentKeyIndex + 1]>>,
          rot    |-> [r EXCEPT !.currentKeyIndex =
                        NextKeyIndex(r.currentKeyIndex, Len(r.parsedKeys))]]

\* the effect of one getNextClient call on the state and on the observation
CallRotator(apiKeyString) ==
  \E out \in {GetNextClient(Rotator, apiKeyString)} :
    /\ currentKeyIndex'  = out.rot.currentKeyIndex
    /\ lastApiKeyString' = out.rot.lastApiKeyString
    /\ parsedKeys'       = out.rot.parsedKeys
    /\ rotArg' = apiKeyString
    /\ rotRet' = out.client
    /\ rotPrevIndex' = currentKeyIndex
    /\ rotChanged' = (apiKeyString # lastApiKeyString)
    /\ rotCalls' = IF apiKeyString = <<>> THEN rotCalls
                   ELSE IF apiKeyString # lastApiKeyString THEN 1
                   ELSE rotCalls + 1

\* the same observation, for a call made inside checkFrameForTarget
ObserveRotator(apiKeyString, begun) ==
  /\ currentKeyIndex'  = begun.rot.currentKeyIndex
  /\ lastApiKeyString' = begun.rot.lastApiKeyString
  /\ parsedKeys'       = begun.rot.parsedKeys
  /\ rotArg' = apiKeyString
  /\ rotRet' = begun.client
  /\ rotPrevIndex' = currentKeyIndex
  /\ rotChanged' = (apiKeyString # lastApiKeyString)
  /\ rotCalls' = IF apiKeyString = <<>> THEN rotCalls
                 ELSE IF apiKeyString # lastApiKeyString THEN 1
                 ELSE rotCalls + 1

\* a further call with the cached string is counted up to MaxCalls
RotatorCallCounted(apiKeyString) ==
  (apiKeyString # <<>> /\ apiKeyString = lastApiKeyString) => rotCalls < MaxCalls

(***************************************************************************)
(* JavaScript values, as far as JSON.parse can produce them.  Numbers are  *)
(* kept in hundredths (0.85 is 85, 1 is 100).  A value is a record         *)
(*   t     : its type tag                                                  *)
(*   n     : the number (number), 0/100 (boolean false/true), or the       *)
(*           number a numeric string denotes                               *)
(*   num   : for a string, whether Number(string) is a number              *)
(*   txt   : for a string, a name for its text ("" is the empty string)    *)
(*   items : for an array, its elements                                    *)
(*   props : for an object, <<[detected, confidence, box_2d]>>             *)
(***************************************************************************)
JsBlank == [t |-> "undefined", n |-> 0, num |-> FALSE, txt |-> "",
            items |-> <<>>, props |-> <<>>]
JsUndefined == JsBlank
JsNull      == [JsBlank EXCEPT !.t = "null"]
JsBool(b)   == [JsBlank EXCEPT !.t = "boolean", !.n = IF b THEN 100 ELSE 0]
JsNum(k)    == [JsBlank EXCEPT !.t = "number", !.n = k]
JsNumStr(k, text) == [JsBlank EXCEPT !.t = "string", !.n = k, !.num = TRUE,
                                     !.txt = text]
JsStr(text) == [JsBlank EXCEPT !.t = "string", !.txt = text,
                               !.num = (text = "")]
JsArray(xs) == [JsBlank EXCEPT !.t = "array", !.items = xs]
JsObject(d, c, b) == [JsBlank EXCEPT !.t = "object",
                        !.props = <<[detected |-> d, confidence |-> c,
                                     box_2d |-> b]>>]

\* ToBoolean: !!x, and the operand of && and ||
Truthy(x) ==
  CASE x.t = "undefined" -> FALSE
    [] x.t = "null"      -> FALSE
    [] x.t = "boolean"   -> x.n # 0
    [] x.t = "number"    -> x.n # 0
    [] x.t = "string"    -> x.txt # ""
    [] OTHER             -> TRUE

\* ToNumber: Number(x), and the operand of >= and <= against a number.
\* Arrays: Number([]) is 0, Number([v]) is Number(String(v)), else NaN.
ToNumber(x) ==
  CASE x.t = "undefined" -> [nan |-> TRUE,  n |-> 0]
    [] x.t = "null"      -> [nan |-> FALSE, n |-> 0]
    [] x.t = "boolean"   -> [nan |-> FALSE, n |-> x.n]
    [] x.t = "number"    -> [nan |-> FALSE, n |-> x.n]
    [] x.t = "string"    -> [nan |-> ~x.num, n |-> IF x.num THEN x.n ELSE 0]
    [] x.t = "array"     ->
         IF Len(x.items) = 0 THEN [nan |-> FALSE, n |-> 0]
         ELSE IF Len(x.items) = 1 /\ x.items[1].t \in {"number", "string"}
           THEN [nan |-> x.items[1].t = "string" /\ ~x.items[1].num,
                 n   |-> IF x.items[1].t = "string" /\ ~x.items[1].num
                         THEN 0 ELSE x.items[1].n]
         ELSE [nan |-> TRUE, n |-> 0]
    [] OTHER             -> [nan |-> TRUE, n |-> 0]

\* x >= lo && x <= hi with number bounds (false when x converts to NaN)
InRange(x, lo, hi) ==
  LET v == ToNumber(x) IN ~v.nan /\ v.n >= lo /\ v.n <= hi

\* property read json.<name>: a TypeError on null and undefined, the
\* property of an object, undefined on any other value
ReadThrows(json) == json.t \in {"null", "undefined"}
Prop(json, name) ==
  IF json.t = "object" THEN json.props[1][name] ELSE JsUndefined

(***************************************************************************)
(* Frame codec: parseDataUrl.                                              *)
(***************************************************************************)
DataColon == <<"d", "a", "t", "a", ":">>
ImageJpeg == <<"i", "m", "a", "g", "e", "/", "j", "p", "e", "g">>

\* s.startsWith(p)
StartsWith(s, p) == Len(s) >= Len(p) /\ SubSeq(s, 1, Len(p)) = p

\* the longest prefix of s holding no character c
RECURSIVE TakeUntil(_, _)
TakeUntil(s, c) ==
  IF s = <<>> \/ Head(s) = c THEN <<>>
  ELSE <<Head(s)>> \o TakeUntil(Tail(s), c)

\* mutant: the type must be followed by a semicolon (/^data:([^;]+);/)
MimeMatch_NeedsSemicolon(metadata) ==
  IF StartsWith(metadata, DataColon)
  THEN LET rest == SubSeq(metadata, Len(DataColon) + 1, Len(metadata))
           g    == TakeUntil(rest, ";")
       IN IF g = <<>> \/ Len(g) = Len(rest) THEN <<>> ELSE <<g>>
  ELSE <<>>

\* metadata.match(/^data:([^;]+)/): <<>> for no match, else <<group 1>>
MimeMatch(metadata) ==
  IF StartsWith(metadata, DataColon)
  THEN LET g == TakeUntil(SubSeq(metadata, Len(DataColon) + 1, Len(metadata)), ";")
       IN IF g = <<>> THEN <<>> ELSE <<g>>
  ELSE <<>>

\* data.replace(/[\s\r\n]+/g, '')
\* mutant: the payload is left as it is
StripWhitespace_None(s) == s

RECURSIVE StripWhitespace(_)
StripWhitespace(s) ==
  IF s = <<>> THEN <<>>
  ELSE IF Head(s) \in Whitespace THEN StripWhitespace(Tail(s))
  ELSE <<Head(s)>> \o StripWhitespace(Tail(s))

\* parseDataUrl(url): <<>> for null, else <<[mimeType, data]>>
ParseDataUrl(url) ==
  LET commaIndex == IndexOf(url, ",") IN
    IF commaIndex = 0 THEN <<>>
    ELSE LET metadata  == SubSeq(url, 1, commaIndex - 1)
             data      == SubSeq(url, commaIndex + 1, Len(url))
             mimeMatch == MimeMatch(metadata)
             mimeType  == IF mimeMatch # <<>> THEN mimeMatch[1] ELSE ImageJpeg
             cleanData == StripWhitespace(data)
         IN IF Len(cleanData) = 0 THEN <<>>
            ELSE <<[mimeType |-> mimeType, data |-> cleanData]>>

\* targetImagesBase64.map(parseDataUrl).filter(t => t !== null)
RECURSIVE ParseTargets(_)
ParseTargets(urls) ==
  IF urls = <<>> THEN <<>>
  ELSE ParseDataUrl(Head(urls)) \o ParseTargets(Tail(urls))

(***************************************************************************)
(* Detection client: checkFrameForTarget.                                  *)
(***************************************************************************)
\* { detected: false, confidence: 0 }
ZeroResult == [detected |-> FALSE, confidence |-> 0, boundingBox |-> <<>>]

\* mutant: the text part counts the screen frame among the targets
RequestParts_CountsScreen(targets, screen) ==
  [i \in 1..Len(targets) |-> [kind |-> "inlineData", image |-> targets[i], count |-> 0]]
  \o <<[kind |-> "inlineData", image |-> screen, count |-> 0]>>
  \o <<[kind |-> "text", image |-> [mimeType |-> <<>>, data |-> <<>>],
        count |-> Len(targets) + 1]>>

\* the parts of the request: one inlineData part per target, one for the
\* screen, one text part naming targets.length
RequestParts(targets, screen) ==
  [i \in 1..Len(targets) |-> [kind |-> "inlineData", image |-> targets[i], count |-> 0]]
  \o <<[kind |-> "inlineData", image |-> screen, count |-> 0]>>
  \o <<[kind |-> "text", image |-> [mimeType |-> <<>>, data |-> <<>>],
        count |-> Len(targets)]>>

\* mutant: the check for zero decoded targets is left out
BeginCheck_NoTargetCheck(rot, apiKeyString, targetImagesBase64, screenFrameBase64) ==
  LET next    == GetNextClient(rot, apiKeyString)
      targets == ParseTargets(targetImagesBase64)
      screen  == ParseDataUrl(screenFrameBase64)
  IN IF next.client = <<>> \/ screen = <<>>
     THEN [rot |-> next.rot, client |-> next.client, invoked |-> FALSE,
           parts |-> <<>>]
     ELSE [rot |-> next.rot, client |-> next.client, invoked |-> TRUE,
           parts |-> RequestParts(targets, screen[1])]

\* mutant: the client is asked for after the images were decoded, so that
\* a call that returns the zero-result for its images leaves the rotation
\* alone
BeginCheck_ClientLate(rot, apiKeyString, targetImagesBase64, screenFrameBase64) ==
  LET next    == GetNextClient(rot, apiKeyString)
      targets == ParseTargets(targetImagesBase64)
      screen  == ParseDataUrl(screenFrameBase64)
  IN IF Len(targets) = 0 \/ screen = <<>>
     THEN [rot |-> rot, client |-> <<>>, invoked |-> FALSE, parts |-> <<>>]
     ELSE IF next.client = <<>>
     THEN [rot |-> next.rot, client |-> next.client, invoked |-> FALSE,
           parts |-> <<>>]
     ELSE [rot |-> next.rot, client |-> next.client, invoked |-> TRUE,
           parts |-> RequestParts(targets, screen[1])]

\* lines 33-73: everything before the remote call.  Gives the rotator's
\* state afterwards, the client it returned, and either the zero-result
\* returned at once (invoked FALSE) or the request handed to
\* ai.models.generateContent (invoked TRUE).
BeginCheck(rot, apiKeyString, targetImagesBase64, screenFrameBase64) ==
  LET next    == GetNextClient(rot, apiKeyString)
      targets == ParseTargets(targetImagesBase64)
      screen  == ParseDataUrl(screenFrameBase64)
  IN IF next.client = <<>>
     THEN [rot |-> next.rot, client |-> next.client, invoked |-> FALSE,
           parts |-> <<>>]
     ELSE IF Len(targets) = 0 \/ screen = <<>>
     THEN [rot |-> next.rot, client |-> next.client, invoked |-> FALSE,
           parts |-> <<>>]
     ELSE [rot |-> next.rot, client |-> next.client, invoked |-> TRUE,
           parts |-> RequestParts(targets, screen[1])]

\* mutant: all four coordinates are range-checked
BoundingBoxOf_AllChecked(box_2d) ==
  IF Truthy(box_2d) /\ box_2d.t = "array" /\ Len(box_2d.items) = 4
  THEN IF \A i \in 1..4 : InRange(box_2d.items[i], 0, 100)
       THEN <<[ymin |-> box_2d.items[1], xmin |-> box_2d.items[2],
               ymax |-> box_2d.items[3], xmax |-> box_2d.items[4]]>>
       ELSE <<>>
  ELSE <<>>

\* mutant: only ymin is range-checked
BoundingBoxOf_OnlyYmin(box_2d) ==
  IF Truthy(box_2d) /\ box_2d.t = "array" /\ Len(box_2d.items) = 4
  THEN IF InRange(box_2d.items[1], 0, 100)
       THEN <<[ymin |-> box_2d.items[1], xmin |-> box_2d.items[2],
               ymax |-> box_2d.items[3], xmax |-> box_2d.items[4]]>>
       ELSE <<>>
  ELSE <<>>

\* lines 154-166: the bounding box taken from json.box_2d
BoundingBoxOf(box_2d) ==
  IF Truthy(box_2d) /\ box_2d.t = "array" /\ Len(box_2d.items) = 4
  THEN IF /\ InRange(box_2d.items[1], 0, 100)
          /\ InRange(box_2d.items[2], 0, 100)
       THEN <<[ymin |-> box_2d.items[1], xmin |-> box_2d.items[2],
               ymax |-> box_2d.items[3], xmax |-> box_2d.items[4]]>>
       ELSE <<>>
  ELSE <<>>

\* Number(json.confidence) || 0
ConfidenceOf(confidence) ==
  LET v == ToNumber(confidence) IN IF v.nan \/ v.n = 0 THEN 0 ELSE v.n

\* lines 146-172: the body of the try block after the remote call answered.
\* threw: an exception left the block; otherwise value is what it returned.
AfterResponse(remote) ==
  CASE remote.kind = "rejects" -> [threw |-> TRUE, value |-> ZeroResult]
    [] remote.kind \in {"noText", "emptyText"} ->
         [threw |-> FALSE, value |-> ZeroResult]
    [] remote.kind = "notJson" -> [threw |-> TRUE, value |-> ZeroResult]
    [] OTHER ->
         IF ReadThrows(remote.json) THEN [threw |-> TRUE, value |-> ZeroResult]
         ELSE [threw |-> FALSE,
               value |-> [detected    |-> Truthy(Prop(remote.json, "detected")),
                          confidence  |-> ConfidenceOf(Prop(remote.json, "confidence")),
                          boundingBox |-> BoundingBoxOf(Prop(remote.json, "box_2d"))]]

\* mutant: no catch, the exception leaves the function
CatchAll_Rethrow(body) ==
  IF body.threw THEN [settled |-> "rejected", result |-> ZeroResult]
  ELSE [settled |-> "resolved", result |-> body.value]

\* lines 75, 174-178: try { ... } catch (error) { return zero-result }
\* settled: how the promise returned by checkFrameForTarget settles
CatchAll(body) ==
  IF body.threw THEN [settled |-> "resolved", result |-> ZeroResult]
  ELSE [settled |-> "resolved", result |-> body.value]

\* the promise of an invoked call, once the remote call has answered
FinishCheck(remote) == CatchAll(AfterResponse(remote))

(***************************************************************************)
(* Inputs: credential config strings.                                      *)
(***************************************************************************)
\* pieces a user may type between commas
RawTokens == { <<>>, <<" ">>, <<"a">>, <<" ", "b", " ">> }

\* every string of 1..MaxTokens raw pieces joined by commas ('' included)
ConfigStrings ==
  UNION { { JoinComma(t) : t \in [1..n -> RawTokens] } : n \in 1..MaxTokens }

\* credential strings handed to checkFrameForTarget
DetectKeys == { <<>>, <<" ">>, <<"a">>, <<"a", ",", " ", "b">> }

(***************************************************************************)
(* Inputs: data URLs.                                                      *)
(***************************************************************************)
\* target images handed to one call
MaxTargets == 2

\* "data:p;b,QR": a mime type, a payload
PngUrl == DataColon \o <<"p", ";", "b", ",", "Q", "R">>
\* "data:p": no comma
NoCommaUrl == DataColon \o <<"p">>
\* "data:p;b, \n": nothing but whitespace after the comma
BlankPayloadUrl == DataColon \o <<"p", ";", "b", ",", " ", "\n">>
\* ",Q ,R": no data: prefix, whitespace and a second comma in the payload
BareUrl == <<",", "Q", " ", ",", "R">>

DetectUrls == { PngUrl, NoCommaUrl, BlankPayloadUrl, BareUrl }

\* "data:p,Q": a mime type that no semicolon follows
NoSemicolonUrl == DataColon \o <<"p", ",", "Q">>
\* "data:;b,Q": no mime type between the colon and the semicolon
EmptyTypeUrl == DataColon \o <<";", "b", ",", "Q">>

\* screen frames handed to one call
ScreenUrls == DetectUrls \cup { NoSemicolonUrl, EmptyTypeUrl }

\* every list of 0..MaxTargets data URLs
TargetLists == UNION { [1..n -> DetectUrls] : n \in 0..MaxTargets }

(***************************************************************************)
(* Inputs: what the remote call does.                                      *)
(***************************************************************************)
DetectedValues == { JsUndefined, JsBool(TRUE), JsBool(FALSE), JsStr("yes"), JsNum(0) }

ConfidenceValues ==
  { JsUndefined, JsNull, JsNum(90), JsNum(50), JsNum(150), JsNum(-10),
    JsNumStr(90, "0.9"), JsStr("high") }

Box(a, b, c, d) == JsArray(<<a, b, c, d>>)

BoxValues ==
  { JsUndefined, JsNull, JsStr("abcd"), JsArray(<<>>),
    JsArray(<<JsNum(10), JsNum(20), JsNum(50)>>),
    JsArray(<<JsNum(10), JsNum(20), JsNum(50), JsNum(60), JsNum(70)>>),
    Box(JsNum(10), JsNum(20), JsNum(50), JsNum(60)),
    Box(JsNum(-10), JsNum(20), JsNum(50), JsNum(60)),
    Box(JsNum(10), JsNum(120), JsNum(50), JsNum(60)),
    Box(JsNum(10), JsNum(20), JsNum(150), JsNum(60)),
    Box(JsNum(10), JsNum(20), JsNum(50), JsNum(-60)),
    Box(JsNull, JsNum(20), JsNum(50), JsNum(60)),
    Box(JsNumStr(10, "0.1"), JsNum(20), JsNum(50), JsNum(60)),
    Box(JsStr("x"), JsNum(20), JsNum(50), JsNum(60)) }

\* bodies that JSON.parse accepts
JsonBodies ==
  { JsNull, JsNum(5), JsStr("ok"), JsArray(<<>>) }
  \cup { JsObject(d, c, b) : d \in DetectedValues, c \in ConfidenceValues,
                             b \in BoxValues }

\* rejects: generateContent rejects (network failure, model error);
\* noText / emptyText: response.text is undefined / '';
\* notJson: JSON.parse throws; json: JSON.parse gives the value
RemoteOutcomes ==
  { [kind |-> k, json |-> JsUndefined] :
      k \in {"rejects", "noText", "emptyText", "notJson"} }
  \cup { [kind |-> "json", json |-> j] : j \in JsonBodies }

NoRemote == [kind |-> "none", json |-> JsUndefined]

(***************************************************************************)
(* App (part_001): constants and inputs.                                   *)
(***************************************************************************)
\* defaults of the config (lines 46-47); confidences are in hundredths
DefaultInterval == 3000
DefaultThreshold == 85

\* the log keeps its last LogKeep entries (line 67: prev.slice(-99) and
\* the new entry); needs LogKeep >= 2, since slice(-0) keeps everything
LogKeep == 2

\* credential strings typed into the settings: '' and "a, b"
AppKeys == { <<>>, <<"a", ",", " ", "b">> }
\* values of the two range inputs (lines 424-444)
OtherInterval == 1000
OtherThreshold == 50
Intervals == { DefaultInterval, OtherInterval }
Thresholds == { DefaultThreshold, OtherThreshold }

\* what FileReader.readAsDataURL gives for an image file
UploadUrls == { PngUrl }

\* what canvas.toDataURL('image/jpeg') gives: a JPEG data URL, or "data:,"
\* for a canvas without pixels
JpegUrl == DataColon \o <<"j", ";", "b", ",", "S">>
NoPixelsUrl == DataColon \o <<",">>

\* what a call of checkFrame finds: whether the video has dimensions and is
\* playing (line 243), whether the capture canvas gives a context and the
\* drawing succeeds (lines 249-255), and the frame captured
FrameEnvs ==
  { [ready |-> FALSE, capture |-> "ok", frame |-> JpegUrl],
    [ready |-> TRUE, capture |-> "ok", frame |-> JpegUrl],
    [ready |-> TRUE, capture |-> "ok", frame |-> NoPixelsUrl],
    [ready |-> TRUE, capture |-> "noContext", frame |-> JpegUrl],
    [ready |-> TRUE, capture |-> "throws", frame |-> JpegUrl] }

\* what the remote call does for a call made by App: it fails, or it
\* reports the target with confidence 0.6, without box_2d, with a box_2d
\* that the validation rejects (xmin 1.2), or with one that it accepts
AppRemoteOutcomes ==
  { [kind |-> "rejects", json |-> JsUndefined],
    [kind |-> "json", json |-> JsObject(JsBool(TRUE), JsNum(60), JsUndefined)],
    [kind |-> "json",
     json |-> JsObject(JsBool(TRUE), JsNum(60),
                       Box(JsNum(10), JsNum(120), JsNum(50), JsNum(60)))],
    [kind |-> "json",
     json |-> JsObject(JsBool(TRUE), JsNum(60),
                       Box(JsNum(10), JsNum(20), JsNum(50), JsNum(60)))] }

(***************************************************************************)
(* App: the handlers as functions of the component's state.  A world is    *)
(* the state a handler reads and writes; videoRef is whether the <video>   *)
(* element is mounted, which it is exactly when stream was non-null at     *)
(* the last render (lines 475-494).                                        *)
(***************************************************************************)
World ==
  [status |-> status, targetImages |-> targetImages, stream |-> stream,
   logs |-> logs, config |-> config, intervalRef |-> intervalRef,
   isProcessingRef |-> isProcessingRef, orphanTimers |-> orphanTimers,
   track |-> track, onendedStream |-> onendedStream, overlay |-> overlay,
   videoRef |-> (stream # "null"), rot |-> Rotator, inflight |-> inflight,
   alertObs |-> FALSE]

\* xs.slice(-n) for n >= 1
LastN(xs, n) ==
  IF Len(xs) <= n THEN xs ELSE SubSeq(xs, Len(xs) - n + 1, Len(xs))

\* mutant: a full log keeps its oldest entries (prev.slice(0, 99))
AddLog_KeepsOldest(w, message, type, confidence) ==
  [w EXCEPT !.logs = Append(IF Len(@) <= LogKeep - 1 THEN @
                            ELSE SubSeq(@, 1, LogKeep - 1),
                            [message |-> message, type |-> type,
                             confidence |-> confidence])]

\* lines 66-74
AddLog(w, message, type, confidence) ==
  [w EXCEPT !.logs = Append(LastN(@, LogKeep - 1),
                            [message |-> message, type |-> type,
                             confidence |-> confidence])]

\* mutant: the overlay is drawn whether or not the <video> is mounted
DrawBoundingBox_NoMountCheck(w, box) ==
  [w EXCEPT !.overlay = IF box = <<>> THEN "clear" ELSE "box"]

\* mutant: without the else branch of lines 84-86, a call without box
\* leaves the overlay as it is
DrawBoundingBox_NoClear(w, box) ==
  IF ~w.videoRef \/ box = <<>> THEN w
  ELSE [w EXCEPT !.overlay = "box"]

\* lines 77-140; box is <<>> for undefined.  The overlay canvas is always
\* mounted (lines 497-500).
DrawBoundingBox(w, box) ==
  IF ~w.videoRef THEN w
  ELSE [w EXCEPT !.overlay = IF box = <<>> THEN "clear" ELSE "box"]

\* window.clearInterval(intervalRef.current)
ClearInterval(w) ==
  [w EXCEPT !.intervalRef = IF @ = "live" THEN "cleared" ELSE @]

\* intervalRef.current = window.setInterval(...)
SetInterval(w) ==
  [w EXCEPT !.intervalRef = "live",
            !.orphanTimers = IF w.intervalRef = "live" THEN @ + 1 ELSE @]

\* mutant: the status is left as it is
StopMonitoring_KeepStatus(w, capturedStream) ==
  LET w1 == IF w.intervalRef # "null"
            THEN [ClearInterval(w) EXCEPT !.intervalRef = "null"]
            ELSE w
      w2 == IF capturedStream # "null"
            THEN [w1 EXCEPT !.track = "ended", !.stream = "null"]
            ELSE w1
  IN AddLog(DrawBoundingBox(w2, <<>>), "Monitoring stopped", "info", <<>>)

\* mutant: the stream is kept and its tracks are left running
StopMonitoring_KeepStream(w, capturedStream) ==
  LET w1 == IF w.intervalRef # "null"
            THEN [ClearInterval(w) EXCEPT !.intervalRef = "null"]
            ELSE w
      w3 == [w1 EXCEPT !.status = "IDLE"]
  IN AddLog(DrawBoundingBox(w3, <<>>), "Monitoring stopped", "info", <<>>)

\* lines 221-233; capturedStream is `stream` as the closure holds it
StopMonitoring(w, capturedStream) ==
  LET w1 == IF w.intervalRef # "null"
            THEN [ClearInterval(w) EXCEPT !.intervalRef = "null"]
            ELSE w
      w2 == IF capturedStream # "null"
            THEN [w1 EXCEPT !.track = "ended", !.stream = "null"]
            ELSE w1
      w3 == [w2 EXCEPT !.status = "IDLE"]
  IN AddLog(DrawBoundingBox(w3, <<>>), "Monitoring stopped", "info", <<>>)

\* what the closure of a checkFrame holds (deps of lines 233 and 274)
Closure(w) ==
  [targetImages |-> w.targetImages, config |-> w.config, stream |-> w.stream]

\* AudioAlert.tsx lines 21-53: the alert tone is started
PlayAlert(w) == [w EXCEPT !.alertObs = TRUE]

\* mutant: the alert is played whatever the sound setting
Alert_Always(w, caller) == PlayAlert(w)

\* line 262, with the config of the closure that made the call
Alert(w, caller) == IF caller.soundEnabled THEN PlayAlert(w) ELSE w

\* mutant: every result that reports the target counts, whatever its
\* confidence
AfterAwait_IgnoreThreshold(w, result, caller) ==
  LET w1 == IF result.detected
            THEN DrawBoundingBox(
                   Alert(AddLog(w, "Target Detected!", "success",
                                <<result.confidence>>), caller),
                   result.boundingBox)
            ELSE DrawBoundingBox(w, <<>>)
  IN [w1 EXCEPT !.isProcessingRef = FALSE]

\* mutant: a check that does not find the target ends the monitoring
AfterAwait_StopOnMiss(w, result, caller) ==
  LET w1 == IF result.detected /\ result.confidence >= caller.confidenceThreshold
            THEN DrawBoundingBox(
                   Alert(AddLog(w, "Target Detected!", "success",
                                <<result.confidence>>), caller),
                   result.boundingBox)
            ELSE [DrawBoundingBox(w, <<>>) EXCEPT !.status = "IDLE"]
  IN [w1 EXCEPT !.isProcessingRef = FALSE]

\* mutant: without the finally of lines 271-273
AfterAwait_KeepBusy(w, result, caller) ==
  IF result.detected /\ result.confidence >= caller.confidenceThreshold
  THEN DrawBoundingBox(
         Alert(AddLog(w, "Target Detected!", "success", <<result.confidence>>),
               caller),
         result.boundingBox)
  ELSE DrawBoundingBox(w, <<>>)

\* mutant: the result of a call is dropped once monitoring was left
AfterAwait_OnlyWhileMonitoring(w, result, caller) ==
  LET w1 == IF /\ w.status = "MONITORING"
               /\ result.detected
               /\ result.confidence >= caller.confidenceThreshold
            THEN DrawBoundingBox(
                   Alert(AddLog(w, "Target Detected!", "success",
                                <<result.confidence>>), caller),
                   result.boundingBox)
            ELSE DrawBoundingBox(w, <<>>)
  IN [w1 EXCEPT !.isProcessingRef = FALSE]

\* lines 260-273: checkFrame after the await, with the config of the
\* closure that made the call
AfterAwait(w, result, caller) ==
  LET w1 == IF result.detected /\ result.confidence >= caller.confidenceThreshold
            THEN DrawBoundingBox(
                   Alert(AddLog(w, "Target Detected!", "success",
                                <<result.confidence>>), caller),
                   result.boundingBox)
            ELSE DrawBoundingBox(w, <<>>)
  IN [w1 EXCEPT !.isProcessingRef = FALSE]

\* what the rest of a checkFrame reads from its closure after the await
\* (lines 260 and 262)
Caller(closure) ==
  [confidenceThreshold |-> closure.config.confidenceThreshold,
   soundEnabled |-> closure.config.soundEnabled]

\* mutant: the guard of line 236 without the busy flag
Busy_Ignored(w) == FALSE

\* line 236: isProcessingRef.current
Busy(w) == w.isProcessingRef

\* mutant: the credential config is looked at before the busy flag
CheckFrame_KeyFirst(w, closure, env) ==
  IF ~w.videoRef \/ Len(closure.targetImages) = 0 THEN w
  ELSE IF closure.config.apiKey = <<>>
  THEN StopMonitoring(AddLog(w, "API Key missing. Check settings.", "error", <<>>),
                      closure.stream)
  ELSE IF Busy(w) THEN w
  ELSE IF ~(env.ready /\ w.track = "live") THEN w
  ELSE IF env.capture = "noContext" THEN w
  ELSE IF env.capture = "throws"
  THEN AddLog(w, "Frame check failed", "error", <<>>)
  ELSE LET w1    == AddLog(w, "Analyzing frame...", "info", <<>>)
           args  == [apiKeyString |-> closure.config.apiKey,
                     targets |-> closure.targetImages, screen |-> env.frame]
           begun == BeginCheck(w1.rot, args.apiKeyString, args.targets, args.screen)
           w2    == [w1 EXCEPT !.rot = begun.rot]
       IN IF begun.invoked
          THEN [w2 EXCEPT !.isProcessingRef = TRUE,
                          !.inflight = Append(@, [args |-> args, parts |-> begun.parts,
                                                  client |-> begun.client,
                                                  caller |-> Caller(closure)])]
          ELSE AfterAwait(w2, ZeroResult, Caller(closure))

\* lines 235-274: checkFrame up to its await (or to its end when it does
\* not await, or awaits a result that is there already).  The capture
\* canvas is always mounted (line 585).
CheckFrame(w, closure, env) ==
  IF ~w.videoRef \/ Len(closure.targetImages) = 0 \/ Busy(w) THEN w
  ELSE IF closure.config.apiKey = <<>>
  THEN StopMonitoring(AddLog(w, "API Key missing. Check settings.", "error", <<>>),
                      closure.stream)
  ELSE IF ~(env.ready /\ w.track = "live") THEN w
  ELSE IF env.capture = "noContext" THEN w
  ELSE IF env.capture = "throws"
  THEN AddLog(w, "Frame check failed", "error", <<>>)
  ELSE LET w1    == AddLog(w, "Analyzing frame...", "info", <<>>)
           args  == [apiKeyString |-> closure.config.apiKey,
                     targets |-> closure.targetImages, screen |-> env.frame]
           begun == BeginCheck(w1.rot, args.apiKeyString, args.targets, args.screen)
           w2    == [w1 EXCEPT !.rot = begun.rot]
       IN IF begun.invoked
          THEN [w2 EXCEPT !.isProcessingRef = TRUE,
                          !.inflight = Append(@, [args |-> args, parts |-> begun.parts,
                                                  client |-> begun.client,
                                                  caller |-> Caller(closure)])]
          ELSE AfterAwait(w2, ZeroResult, Caller(closure))

\* the dependencies of the effect of lines 276-284: checkFrame is a new
\* function whenever targetImages, config or stream is a new value
Deps(w) == <<w.status, w.stream, w.targetImages, w.config>>

\* mutant: the effect does not look at the targets
ShouldRun_IgnoresTargets(w) == w.status = "MONITORING" /\ w.stream # "null"

\* line 277
ShouldRun(w) ==
  w.status = "MONITORING" /\ w.stream # "null" /\ Len(w.targetImages) > 0

\* the state as a render finds it: the <video> mounted or not
Mounted(w) == [w EXCEPT !.videoRef = (w.stream # "null")]

\* mutant: the effect has no cleanup
RenderPass_NoCleanup(prev, w, env) ==
  LET w1 == Mounted(w)
  IN IF Deps(prev) = Deps(w) THEN w1
     ELSE IF ShouldRun(w1) THEN SetInterval(CheckFrame(w1, Closure(w1), env))
     ELSE w1

\* a render that follows state `prev` of the previous render: the <video>
\* is mounted or unmounted, and when a dependency changed the effect's
\* cleanup (lines 280-282, there when the previous run started a timer)
\* runs, and then the effect
RenderPass(prev, w, env) ==
  LET w1 == Mounted(w)
      w2 == IF ShouldRun(prev) /\ w1.intervalRef # "null" THEN ClearInterval(w1)
            ELSE w1
  IN IF Deps(prev) = Deps(w) THEN w1
     ELSE IF ShouldRun(w2) THEN SetInterval(CheckFrame(w2, Closure(w2), env))
     ELSE w2

(***************************************************************************)
(* Persisted configuration (part_001 lines 35-55).  The entry of           *)
(* localStorage is a text, a sequence of characters; a number of the       *)
(* config is a count of `scale`-ths: checkInterval counts milliseconds     *)
(* (scale 1), confidenceThreshold hundredths (scale 100).                  *)
(***************************************************************************)
Quote     == "\""
Backslash == "\\"
DigitChars == <<"0", "1", "2", "3", "4", "5", "6", "7", "8", "9">>
IsDigit(c) == \E d \in 1..10 : DigitChars[d] = c
DigitValue(c) == (CHOOSE d \in 1..10 : DigitChars[d] = c) - 1

\* the property names of MonitorConfig (types.ts lines 27-32)
ApiKeyName    == <<"a", "p", "i", "K", "e", "y">>
IntervalName  == <<"c", "h", "e", "c", "k", "I", "n", "t", "e", "r", "v", "a", "l">>
ThresholdName == <<"c", "o", "n", "f", "i", "d", "e", "n", "c", "e",
                   "T", "h", "r", "e", "s", "h", "o", "l", "d">>
SoundName     == <<"s", "o", "u", "n", "d", "E", "n", "a", "b", "l", "e", "d">>

\* mutant: a string is written between quotes as it is
JsonEscape_None(s) == s

\* JSON.stringify of a string, without its quotes: the quote, the backslash
\* and the line feed are escaped
RECURSIVE JsonEscape(_)
JsonEscape(s) ==
  IF s = <<>> THEN <<>>
  ELSE (IF Head(s) \in {Quote, Backslash} THEN <<Backslash, Head(s)>>
        ELSE IF Head(s) = "\n" THEN <<Backslash, "n">>
        ELSE <<Head(s)>>) \o JsonEscape(Tail(s))

JsonString(s) == <<Quote>> \o JsonEscape(s) \o <<Quote>>

RECURSIVE Digits(_)
Digits(n) ==
  IF n < 10 THEN <<DigitChars[n + 1]>>
  ELSE Digits(n \div 10) \o <<DigitChars[(n % 10) + 1]>>

\* JSON.stringify of the number n / scale: the shortest decimal that
\* denotes it, here with at most two decimals
JsonNumber(n, scale) ==
  LET h == ((n % scale) * 100) \div scale
  IN Digits(n \div scale) \o
     (IF h = 0 THEN <<>>
      ELSE <<".", DigitChars[(h \div 10) + 1]>> \o
           (IF h % 10 = 0 THEN <<>> ELSE <<DigitChars[(h % 10) + 1]>>))

JsonBoolean(b) ==
  IF b THEN <<"t", "r", "u", "e">> ELSE <<"f", "a", "l", "s", "e">>

\* line 54: JSON.stringify(config), the properties in the order of their
\* creation (lines 44-49 and the spreads of lines 411-451)
JsonStringify(cfg) ==
  <<"{">> \o JsonString(ApiKeyName) \o <<":">> \o JsonString(cfg.apiKey)
  \o <<",">> \o JsonString(IntervalName) \o <<":">>
  \o JsonNumber(cfg.checkInterval, 1)
  \o <<",">> \o JsonString(ThresholdName) \o <<":">>
  \o JsonNumber(cfg.confidenceThreshold, 100)
  \o <<",">> \o JsonString(SoundName) \o <<":">>
  \o JsonBoolean(cfg.soundEnabled) \o <<"}">>

\* JSON.parse on the texts that can be met here: an object of strings,
\* non-negative decimals and booleans, without white space between its
\* tokens.  A parse gives [ok, v, next]: whether the text is well formed
\* from position i on, the value read, and the position after it.
ParseFails == [ok |-> FALSE, v |-> <<>>, next |-> 0]

RECURSIVE ScanString(_, _, _)
ScanString(t, j, acc) ==
  IF j > Len(t) THEN ParseFails
  ELSE IF t[j] = Quote THEN [ok |-> TRUE, v |-> acc, next |-> j + 1]
  ELSE IF t[j] = "\n" THEN ParseFails
  ELSE IF t[j] = Backslash
  THEN IF j + 1 > Len(t) THEN ParseFails
       ELSE IF t[j + 1] \in {Quote, Backslash}
       THEN ScanString(t, j + 2, Append(acc, t[j + 1]))
       ELSE IF t[j + 1] = "n" THEN ScanString(t, j + 2, Append(acc, "\n"))
       ELSE ParseFails
  ELSE ScanString(t, j + 1, Append(acc, t[j]))

\* the digits from position j on: their count and the number they denote
RECURSIVE ScanDigits(_, _, _, _)
ScanDigits(t, j, count, acc) ==
  IF j <= Len(t) /\ IsDigit(t[j])
  THEN ScanDigits(t, j + 1, count + 1, acc * 10 + DigitValue(t[j]))
  ELSE [count |-> count, n |-> acc, next |-> j]

\* a number as [units, hundredths]; decimals after the second are beyond
\* the model's numbers and dropped
ParseNumber(t, i) ==
  LET int == ScanDigits(t, i, 0, 0)
  IN IF int.count = 0 \/ (int.count > 1 /\ t[i] = "0") THEN ParseFails
     ELSE IF int.next <= Len(t) /\ t[int.next] = "."
     THEN LET frac == ScanDigits(t, int.next + 1, 0, 0)
              d1   == DigitValue(t[int.next + 1])
              d2   == IF frac.count >= 2 THEN DigitValue(t[int.next + 2])
                      ELSE 0
          IN IF frac.count = 0 THEN ParseFails
             ELSE [ok |-> TRUE, next |-> frac.next,
                   v |-> [t |-> "number", units |-> int.n,
                          hundredths |-> d1 * 10 + d2]]
     ELSE [ok |-> TRUE, next |-> int.next,
           v |-> [t |-> "number", units |-> int.n, hundredths |-> 0]]

HasAt(t, i, word) ==
  i + Len(word) - 1 <= Len(t) /\ SubSeq(t, i, i + Len(word) - 1) = word

ParseValue(t, i) ==
  IF i > Len(t) THEN ParseFails
  ELSE IF t[i] = Quote
  THEN LET s == ScanString(t, i + 1, <<>>)
       IN IF s.ok THEN [s EXCEPT !.v = [t |-> "string", chars |-> s.v]]
          ELSE ParseFails
  ELSE IF IsDigit(t[i]) THEN ParseNumber(t, i)
  ELSE IF HasAt(t, i, JsonBoolean(TRUE))
  THEN [ok |-> TRUE, v |-> [t |-> "boolean", b |-> TRUE], next |-> i + 4]
  ELSE IF HasAt(t, i, JsonBoolean(FALSE))
  THEN [ok |-> TRUE, v |-> [t |-> "boolean", b |-> FALSE], next |-> i + 5]
  ELSE ParseFails

\* the members of an object from position i on, after those of acc
RECURSIVE ParseMembers(_, _, _)
ParseMembers(t, i, acc) ==
  IF i > Len(t) \/ t[i] # Quote THEN ParseFails
  ELSE LET name == ScanString(t, i + 1, <<>>)
       IN IF ~name.ok \/ name.next > Len(t) \/ t[name.next] # ":"
          THEN ParseFails
          ELSE LET value == ParseValue(t, name.next + 1)
                   all   == Append(acc, [name |-> name.v, value |-> value.v])
               IN IF ~value.ok \/ value.next > Len(t) THEN ParseFails
                  ELSE IF t[value.next] = ","
                  THEN ParseMembers(t, value.next + 1, all)
                  ELSE IF t[value.next] = "}"
                  THEN [ok |-> TRUE, v |-> all, next |-> value.next + 1]
                  ELSE ParseFails

\* line 39: JSON.parse(saved); ok is false when it throws a SyntaxError
JsonParse(text) ==
  LET object == IF Len(text) >= 2 /\ text[1] = "{"
                THEN IF text[2] = "}"
                     THEN [ok |-> TRUE, v |-> <<>>, next |-> 3]
                     ELSE ParseMembers(text, 2, <<>>)
                ELSE ParseFails
  IN [ok |-> object.ok /\ object.next = Len(text) + 1, members |-> object.v]

\* the value of property `name` of a parsed object: of a name met more
\* than once the last value counts; <<>> when there is none
Member(members, name) ==
  LET at == {k \in 1..Len(members) : members[k].name = name}
  IN IF at = {} THEN <<>>
     ELSE <<members[CHOOSE k \in at : \A j \in at : j <= k].value>>

\* the config that a parsed object is taken for: nothing is validated, a
\* property that is not there is undefined (<<>>)
ConfigOf(members) ==
  LET Read(name, scale) ==
        LET m == Member(members, name)
        IN IF m = <<>> THEN <<>>
           ELSE IF m[1].t = "string" THEN m[1].chars
           ELSE IF m[1].t = "boolean" THEN m[1].b
           ELSE m[1].units * scale + (m[1].hundredths * scale) \div 100
  IN [apiKey |-> Read(ApiKeyName, 1),
      checkInterval |-> Read(IntervalName, 1),
      confidenceThreshold |-> Read(ThresholdName, 100),
      soundEnabled |-> Read(SoundName, 1)]

\* lines 44-49
DefaultConfig ==
  [apiKey |-> <<>>, checkInterval |-> DefaultInterval,
   confidenceThreshold |-> DefaultThreshold, soundEnabled |-> TRUE]

\* lines 35-50: the initial config, given what getItem returns (<<>> for
\* null, <<text>> for an entry), and whether it is the default one
LoadConfig(saved) ==
  IF saved = <<>> \/ saved[1] = <<>>
  THEN [config |-> DefaultConfig, defaults |-> TRUE]
  ELSE LET parsed == JsonParse(saved[1])
       IN IF parsed.ok
          THEN [config |-> ConfigOf(parsed.members), defaults |-> FALSE]
          ELSE [config |-> DefaultConfig, defaults |-> TRUE]

\* mutant: the entry is rewritten when the credentials change only
SaveConfig_OnApiKey(before, cfg, entry) ==
  IF before = <<>> \/ cfg.apiKey # before.apiKey THEN <<cfg>> ELSE entry

\* lines 53-55: the effect of a render whose config is not the one of the
\* render before it (<<>> on mount) rewrites the entry with the text of
\* the config
SaveConfig(before, cfg, entry) ==
  IF cfg # before THEN <<cfg>> ELSE entry

\* line 37: what getItem gives for an entry that setItem wrote
GetItem(entry) == <<JsonStringify(entry[1])>>

\* the world becomes the next state
Commit(w) ==
  /\ status' = w.status
  /\ targetImages' = w.targetImages
  /\ stream' = w.stream
  /\ logs' = w.logs
  /\ config' = w.config
  /\ intervalRef' = w.intervalRef
  /\ isProcessingRef' = w.isProcessingRef
  /\ orphanTimers' = w.orphanTimers
  /\ track' = w.track
  /\ onendedStream' = w.onendedStream
  /\ overlay' = w.overlay
  /\ alertObs' = w.alertObs
  /\ stored' = SaveConfig(config, w.config, stored)
  /\ loadObs' = loadObs
  /\ currentKeyIndex' = w.rot.currentKeyIndex
  /\ lastApiKeyString' = w.rot.lastApiKeyString
  /\ parsedKeys' = w.rot.parsedKeys
  /\ inflight' = w.inflight
  /\ UNCHANGED <<rotObs, detObs>>

InitRotator ==
  /\ currentKeyIndex = 0
  /\ lastApiKeyString = <<>>
  /\ parsedKeys = <<>>
  /\ rotArg = <<>>
  /\ rotRet = <<>>
  /\ rotCalls = 0
  /\ rotPrevIndex = 0
  /\ rotChanged = FALSE

InitDetect ==
  /\ inflight = <<>>
  /\ detObs = <<>>

\* App as first rendered and after its first effects, when getItem gives
\* `saved` (lines 29-63)
InitAppWith(saved) ==
  /\ status = "IDLE"
  /\ targetImages = <<>>
  /\ stream = "null"
  /\ logs = <<>>
  /\ config = LoadConfig(saved).config
  /\ intervalRef = "null"
  /\ isProcessingRef = FALSE
  /\ orphanTimers = 0
  /\ track = "none"
  /\ onendedStream = "null"
  /\ overlay = "clear"
  /\ alertObs = FALSE
  /\ loadObs = saved
  /\ stored = SaveConfig(<<>>, config, <<>>)

\* nothing saved in localStorage
InitApp == InitAppWith(<<>>)

(***************************************************************************)
(* Specification of the rotator alone: any sequence of calls.              *)
(***************************************************************************)
RotatorCall ==
  \E s \in ConfigStrings :
    /\ RotatorCallCounted(s)
    /\ CallRotator(s)
    /\ UNCHANGED <<detVars, appVars>>

InitRot == InitRotator /\ InitDetect /\ InitApp
NextRot == RotatorCall
SpecRotator == InitRot /\ [][NextRot]_vars

(***************************************************************************)
(* Specification of the detection client alone: one call at a time, with   *)
(* any credential string, target list, screen frame and remote behaviour.  *)
(***************************************************************************)
\* the caller's closure kept with a call (none for a bare call)
NoCaller == [confidenceThreshold |-> 0, soundEnabled |-> FALSE]

\* checkFrameForTarget(apiKeyString, targets, screen) up to its first await
\* or its early return
DetectCall ==
  /\ inflight = <<>>
  /\ detObs = <<>>
  /\ \E apiKeyString \in DetectKeys, targets \in TargetLists, screen \in ScreenUrls :
       \E begun \in {BeginCheck(Rotator, apiKeyString, targets, screen)} :
         LET args == [apiKeyString |-> apiKeyString, targets |-> targets,
                      screen |-> screen]
         IN /\ RotatorCallCounted(apiKeyString)
            /\ ObserveRotator(apiKeyString, begun)
            /\ UNCHANGED appVars
            /\ IF begun.invoked
               THEN /\ inflight' = <<[args |-> args, parts |-> begun.parts,
                                      client |-> begun.client, caller |-> NoCaller]>>
                    /\ detObs' = <<>>
               ELSE /\ inflight' = <<>>
                    /\ detObs' = <<[args |-> args, invoked |-> FALSE,
                                    remote |-> NoRemote,
                                    outcome |-> [settled |-> "resolved",
                                                 result |-> ZeroResult]]>>

\* the remote call answers and the promise of checkFrameForTarget settles
DetectSettle ==
  /\ inflight # <<>>
  /\ \E remote \in RemoteOutcomes :
       /\ inflight' = Tail(inflight)
       /\ detObs' = <<[args |-> Head(inflight).args, invoked |-> TRUE,
                       remote |-> remote, outcome |-> FinishCheck(remote)]>>
       /\ UNCHANGED <<rotVars, rotObs, appVars>>

\* the caller takes the result
DetectReturn ==
  /\ detObs # <<>>
  /\ detObs' = <<>>
  /\ UNCHANGED <<rotVars, rotObs, inflight, appVars>>

NextDetect == DetectCall \/ DetectSettle \/ DetectReturn
SpecDetect == InitRot /\ [][NextDetect]_vars

(***************************************************************************)
(* App: one action per handler, with the renders that follow it.           *)
(***************************************************************************)
\* the video and canvas looked at by the checkFrame that the effect calls,
\* when the renders after a handler call it
EffectEnvs(before, after) ==
  IF Deps(before) # Deps(after) /\ ShouldRun(after) THEN FrameEnvs
  ELSE {CHOOSE env \in FrameEnvs : ~env.ready}

\* a handler found the state World and has left the state `after`: a
\* render follows for the handler's updates, and one for those of the
\* effect; `last` is what follows the renders in the same task
Rendered(after, last(_)) ==
  \E env \in EffectEnvs(World, after) :
    \E w1 \in {RenderPass(World, after, env)} :
      \E w2 \in {RenderPass(Mounted(after), w1, env)} :
        \E w3 \in {last(w2)} : Commit(w3)

Nothing(w) == w

Handled(after) == Rendered(after, Nothing)

\* lines 172-189: a file is chosen and read
HandleImageUpload ==
  /\ Len(targetImages) < MaxTargets
  /\ \E src \in UploadUrls :
       \E after \in {AddLog([World EXCEPT !.targetImages = Append(@, src)],
                            "Target image added successfully", "info", <<>>)} :
         Handled(after)

\* the sequence without its i-th element
RemoveAt(xs, i) == SubSeq(xs, 1, i - 1) \o SubSeq(xs, i + 1, Len(xs))

\* lines 191-194: the remove button of the i-th target image
RemoveTargetImage ==
  \E i \in 1..Len(targetImages) :
    \E after \in {AddLog([World EXCEPT !.targetImages = RemoveAt(@, i)],
                         "Target image removed", "info", <<>>)} :
      Handled(after)

\* lines 196-219: getDisplayMedia is granted or denied
StartCaptureOutcome(w, outcome) ==
  IF outcome = "denied"
  THEN AddLog(w, "Failed to start screen capture", "error", <<>>)
  ELSE AddLog([w EXCEPT !.stream = "stream", !.track = "live",
                        !.onendedStream = w.stream],
              "Screen monitoring started", "info", <<>>)

\* lines 143-157: the <video> plays the new stream or refuses to
PlayOutcome(w, outcome) ==
  IF outcome = "grantedNoPlay"
  THEN AddLog(w, "Error playing video stream", "error", <<>>)
  ELSE w

\* the start button, rendered while stream is null (lines 526-535)
StartCapture ==
  /\ stream = "null"
  /\ \E outcome \in {"denied", "granted", "grantedNoPlay"} :
       \E after \in {StartCaptureOutcome(World, outcome)} :
         Rendered(after, LAMBDA w : PlayOutcome(w, outcome))

\* lines 205-208: the browser ends the capture track
TrackEnded ==
  /\ track = "live"
  /\ \E after \in {AddLog(StopMonitoring([World EXCEPT !.track = "ended"],
                                         onendedStream),
                          "Screen sharing ended by user", "warning", <<>>)} :
       Handled(after)

\* the stop button, rendered while stream is non-null (line 555), runs the
\* stopMonitoring of the last render
StopClick ==
  /\ stream # "null"
  /\ \E after \in {StopMonitoring(World, stream)} : Handled(after)

\* mutant: the credential config is not looked at
ToggleMonitoring_NoKeyCheck(w) ==
  IF w.status \in {"IDLE", "PAUSED"}
  THEN IF w.stream = "null"
       THEN AddLog(w, "Start screen capture first", "warning", <<>>)
       ELSE IF Len(w.targetImages) = 0
       THEN AddLog(w, "Upload a target image first", "warning", <<>>)
       ELSE AddLog([w EXCEPT !.status = "MONITORING"],
                   "Monitoring active", "success", <<>>)
  ELSE AddLog([w EXCEPT !.status = "PAUSED"], "Monitoring paused", "info", <<>>)

\* lines 286-308
ToggleMonitoring(w) ==
  IF w.status \in {"IDLE", "PAUSED"}
  THEN IF w.config.apiKey = <<>>
       THEN AddLog(w, "Gemini API Key is required", "error", <<>>)
       ELSE IF w.stream = "null"
       THEN AddLog(w, "Start screen capture first", "warning", <<>>)
       ELSE IF Len(w.targetImages) = 0
       THEN AddLog(w, "Upload a target image first", "warning", <<>>)
       ELSE AddLog([w EXCEPT !.status = "MONITORING"],
                   "Monitoring active", "success", <<>>)
  ELSE AddLog([w EXCEPT !.status = "PAUSED"], "Monitoring paused", "info", <<>>)

\* toggleMonitoring called in any state
ToggleCall ==
  \E after \in {ToggleMonitoring(World)} : Handled(after)

\* the toggle button, rendered while stream is non-null and disabled
\* while there is no target image (lines 536-553)
ToggleClick ==
  /\ stream # "null"
  /\ Len(targetImages) > 0
  /\ ToggleCall

\* setConfig(prev => ({...prev, ...})) and the renders after it
SetConfig(next) ==
  \E after \in {[World EXCEPT !.config = next]} : Handled(after)

\* line 411
SetApiKey ==
  \E v \in AppKeys \ {config.apiKey} : SetConfig([config EXCEPT !.apiKey = v])

\* line 428
SetCheckInterval ==
  \E v \in Intervals \ {config.checkInterval} :
    SetConfig([config EXCEPT !.checkInterval = v])

\* line 444
SetConfidenceThreshold ==
  \E v \in Thresholds \ {config.confidenceThreshold} :
    SetConfig([config EXCEPT !.confidenceThreshold = v])

\* lines 449-452
ToggleSound == SetConfig([config EXCEPT !.soundEnabled = ~@])

\* a timer started at line 279 fires.  Its checkFrame is the one of the
\* last render: the effect starts a new timer whenever checkFrame changes.
Tick ==
  /\ intervalRef = "live" \/ orphanTimers > 0
  /\ \E env \in FrameEnvs :
       \E after \in {CheckFrame(World, Closure(World), env)} : Handled(after)

\* the remote call of a checkFrameForTarget in flight answers and the
\* checkFrame that awaits it goes on (lines 258-273)
SettleWith(i, remote) ==
  \E after \in {AfterAwait([World EXCEPT !.inflight = RemoveAt(@, i)],
                           FinishCheck(remote).result,
                           inflight[i].caller)} :
    Handled(after)

Settle ==
  /\ inflight # <<>>
  /\ \E i \in 1..Len(inflight), remote \in AppRemoteOutcomes :
       SettleWith(i, remote)

Init == InitRotator /\ InitDetect /\ InitApp

Next ==
  \/ HandleImageUpload
  \/ RemoveTargetImage
  \/ StartCapture
  \/ TrackEnded
  \/ StopClick
  \/ ToggleClick
  \/ SetApiKey
  \/ SetCheckInterval
  \/ SetConfidenceThreshold
  \/ ToggleSound
  \/ Tick
  \/ Settle

Spec == Init /\ [][Next]_vars

\* the same where every remote call in flight is answered in the end: the
\* promise of generateContent settles, and the task that continues the
\* checkFrame awaiting it is then run
SpecLive == Init /\ [][Next]_vars /\ WF_vars(Settle)

\* the video plays and the capture canvas gives the frame
ReadyEnv == [ready |-> TRUE, capture |-> "ok", frame |-> JpegUrl]

\* a timer is running whose checkFrame, were it to fire now on a playing
\* video, would issue a detection call
TickWouldIssue ==
  /\ intervalRef = "live"
  /\ Len(CheckFrame(World, Closure(World), ReadyEnv).inflight) > Len(inflight)

\* a detection call is issued
CallIssued == Len(inflight') > Len(inflight)

\* the same where every remote call is answered and the timer keeps
\* firing on a playing video: a tick that would issue a call does not stay
\* possible for ever without a call being issued (weak fairness of the
\* setInterval callback of line 279)
SpecLoop ==
  /\ Init /\ [][Next]_vars
  /\ WF_vars(Settle)
  /\ []<>(~TickWouldIssue) \/ []<><<CallIssued>>_vars

(***************************************************************************)
(* Specification of the persisted configuration: the settings are changed  *)
(* and the page is loaded again, starting from any entry.                  *)
(***************************************************************************)
\* the entry of an earlier session: a credential with a quote and a
\* backslash, 1.5 s, 10 %, sound off
EarlierKey == <<"k", Quote, Backslash>>
EarlierEntry ==
  <<"{", "\"", "a", "p", "i", "K", "e", "y", "\"", ":", "\"", "k", "\\",
    "\"", "\\", "\\", "\"", ",", "\"", "c", "h", "e", "c", "k", "I", "n",
    "t", "e", "r", "v", "a", "l", "\"", ":", "1", "5", "0", "0", ",", "\"",
    "c", "o", "n", "f", "i", "d", "e", "n", "c", "e", "T", "h", "r", "e",
    "s", "h", "o", "l", "d", "\"", ":", "0", ".", "1", ",", "\"", "s", "o",
    "u", "n", "d", "E", "n", "a", "b", "l", "e", "d", "\"", ":", "f", "a",
    "l", "s", "e", "}">>

\* what getItem may return at startup: null, '', the entry of an earlier
\* session, and texts that are not JSON (a cut entry, a lone brace)
SavedEntries ==
  { <<>>, << <<>> >>, <<EarlierEntry>>, <<SubSeq(EarlierEntry, 1, 12)>>,
    << <<"{">> >> }

InitConfig ==
  /\ InitRotator
  /\ InitDetect
  /\ \E saved \in SavedEntries : InitAppWith(saved)

\* the page is loaded again: the module and the component start afresh
\* with what localStorage holds
Reload ==
  /\ currentKeyIndex' = 0
  /\ lastApiKeyString' = <<>>
  /\ parsedKeys' = <<>>
  /\ rotArg' = <<>>
  /\ rotRet' = <<>>
  /\ rotCalls' = 0
  /\ rotPrevIndex' = 0
  /\ rotChanged' = FALSE
  /\ inflight' = <<>>
  /\ detObs' = <<>>
  /\ status' = "IDLE"
  /\ targetImages' = <<>>
  /\ stream' = "null"
  /\ logs' = <<>>
  /\ config' = LoadConfig(GetItem(stored)).config
  /\ intervalRef' = "null"
  /\ isProcessingRef' = FALSE
  /\ orphanTimers' = 0
  /\ track' = "none"
  /\ onendedStream' = "null"
  /\ overlay' = "clear"
  /\ alertObs' = FALSE
  /\ loadObs' = GetItem(stored)
  /\ stored' = SaveConfig(<<>>, config', stored)

NextConfig ==
  \/ SetApiKey
  \/ SetCheckInterval
  \/ SetConfidenceThreshold
  \/ ToggleSound
  \/ Reload

SpecConfig == InitConfig /\ [][NextConfig]_vars

\* the same with toggleMonitoring called in any state
NextHandlers ==
  \/ HandleImageUpload
  \/ RemoveTargetImage
  \/ StartCapture
  \/ TrackEnded
  \/ StopClick
  \/ ToggleCall
  \/ SetApiKey
  \/ SetCheckInterval
  \/ SetConfidenceThreshold
  \/ ToggleSound
  \/ Tick
  \/ Settle

SpecHandlers == Init /\ [][NextHandlers]_vars

(***************************************************************************)
(* Properties of the credential rotator (checked under SpecRotator).       *)
(***************************************************************************)
\* the tokens of the string of the last call
ArgKeys == ParseKeys(rotArg)

\* C6: round-robin issuance.  With a config string of k >= 1 tokens, the
\* n-th call answered from that unchanged string returns token
\* ((n-1) mod k): each token once in list order, then the first again.
C6_RoundRobin ==
  (rotArg # <<>> /\ Len(ArgKeys) >= 1 /\ rotCalls >= 1)
    => rotRet = <<ArgKeys[((rotCalls - 1) % Len(ArgKeys)) + 1]>>

\* the third call with "a, b " (k = 2) has returned the first token again
C6_Witness ==
  /\ ArgKeys = << <<"a">>, <<"b">> >>
  /\ rotCalls = 3
  /\ rotRet = << <<"a">> >>

\* what the last call must have done if it re-derived the pool from its
\* argument: pool split/trimmed/filtered, first token returned, index 1 mod k
PoolRederived ==
  /\ parsedKeys = ArgKeys
  /\ IF Len(ArgKeys) = 0
     THEN rotRet = <<>> /\ currentKeyIndex = 0
     ELSE rotRet = <<ArgKeys[1]>> /\ currentKeyIndex = 1 % Len(ArgKeys)

\* C7 as stated: every call with a raw string different from the one seen
\* before re-derives the pool from it, returns its first token and leaves
\* the index at 1 mod the new pool size.
C7_Original == rotChanged => PoolRederived

\* C7 amended: every call with a non-empty raw string different from the
\* cached one re-derives the pool, caches the string, returns the first
\* token and leaves the index at 1 mod the new pool size (none and index 0
\* when the new pool is empty), whatever index the old string had reached.
C7_ResetOnChange ==
  (rotChanged /\ rotArg # <<>>) => (PoolRederived /\ lastApiKeyString = rotArg)

\* a two-token string adopted while the previous string was mid-cycle
C7_Witness ==
  /\ rotChanged
  /\ rotPrevIndex = 1
  /\ Len(ArgKeys) = 2
  /\ rotRet = <<ArgKeys[1]>>
  /\ currentKeyIndex = 1

\* a string holding nothing but whitespace and commas
AllBlank(s) == \A i \in 1..Len(s) : s[i] \in Whitespace \cup {","}

\* C8: for an empty config string, or one whose tokens are all empty or
\* whitespace, the rotator returns none on every call.
C8_BlankGivesNone == AllBlank(rotArg) => rotRet = <<>>

\* a whitespace-and-comma string has been called and answered none
C8_Witness ==
  /\ rotArg = <<" ", ",", " ">>
  /\ lastApiKeyString = rotArg
  /\ rotRet = <<>>

\* C9 as stated: the index is in [0, pool length) in every reachable state.
C9_Original == 0 <= currentKeyIndex /\ currentKeyIndex < Len(parsedKeys)

\* C9 amended: the index is in [0, pool length) whenever the pool is not
\* empty, and is 0 while the pool is empty (initially, and after a config
\* string that yields no token).
C9_IndexInRange ==
  /\ 0 <= currentKeyIndex
  /\ Len(parsedKeys) > 0 => currentKeyIndex < Len(parsedKeys)
  /\ Len(parsedKeys) = 0 => currentKeyIndex = 0

\* the index has wrapped from the last position of a three-token pool
C9_Witness ==
  /\ Len(parsedKeys) = 3
  /\ rotPrevIndex = 2
  /\ currentKeyIndex = 0
  /\ rotCalls = 3

\* a call whose argument is the non-empty string of the call before it,
\* and a call whose non-empty argument is not the cached string
SameString == rotArg' = rotArg /\ rotArg # <<>>
StringChange == rotArg' # <<>> /\ rotArg' # lastApiKeyString

\* the index moves on by one, modulo the pool length
Advances ==
  /\ Len(parsedKeys') > 0
  /\ currentKeyIndex' = (currentKeyIndex + 1) % Len(parsedKeys')

\* the index is reset, and moves on by one if a client is issued
ResetThenIssued ==
  currentKeyIndex' = IF Len(parsedKeys') = 0 THEN 0 ELSE 1 % Len(parsedKeys')

\* C30: the pool is re-derived only when the raw string changes.  A call
\* with the same non-empty string as the call before it leaves the pool and
\* the cached string as they were and does not reset the index, which
\* moves on by one from where it was; the pool
\* and the cached string change only in a call whose string differs from
\* the cached one; and the index changes only by +1 modulo the pool length
\* when a client is issued, after a reset to 0 when the string changed.
\* The cached string is the non-empty string of the last call.
C30_CachedPool ==
  /\ [](rotArg # <<>> => lastApiKeyString = rotArg)
  /\ [][/\ SameString =>
             /\ parsedKeys' = parsedKeys
             /\ lastApiKeyString' = lastApiKeyString
             /\ Len(parsedKeys) = 0 => currentKeyIndex' = currentKeyIndex
             /\ Len(parsedKeys) > 0 => Advances
        /\ (parsedKeys' # parsedKeys \/ lastApiKeyString' # lastApiKeyString)
             => StringChange
        /\ currentKeyIndex' # currentKeyIndex =>
             IF StringChange THEN ResetThenIssued
             ELSE Advances /\ rotRet' # <<>>]_vars

\* the second call with the same three-token string has gone on from
\* index 1 to index 2
C30_Witness ==
  /\ rotArg # <<>>
  /\ ~rotChanged
  /\ rotCalls = 2
  /\ Len(parsedKeys) = 3
  /\ rotPrevIndex = 1
  /\ currentKeyIndex = 2

(***************************************************************************)
(* Properties of the detection client (checked under SpecDetect).          *)
(***************************************************************************)
Settled == detObs[1]

\* the body conforms to the responseSchema of the request: an object with
\* a boolean detected, a number confidence and, if present, a box_2d that
\* is an array of numbers
SchemaValid(json) ==
  /\ json.t = "object"
  /\ Prop(json, "detected").t = "boolean"
  /\ Prop(json, "confidence").t = "number"
  /\ \/ Prop(json, "box_2d").t = "undefined"
     \/ /\ Prop(json, "box_2d").t = "array"
        /\ \A i \in 1..Len(Prop(json, "box_2d").items) :
             Prop(json, "box_2d").items[i].t = "number"

\* the call failed before the remote call, or the remote call failed, or
\* its body is empty or is not JSON
HardFailure(o) ==
  \/ ~o.invoked
  \/ o.remote.kind \in {"rejects", "noText", "emptyText", "notJson"}

\* C2 as stated: the call never rejects, and on every failure path
\* (schema-violating JSON included) the result is the zero-result.
C2_Original ==
  detObs # <<>> =>
    /\ Settled.outcome.settled = "resolved"
    /\ (HardFailure(Settled) \/ ~SchemaValid(Settled.remote.json))
         => Settled.outcome.result = ZeroResult

\* C2 amended: the call never throws or rejects; it resolves to the
\* zero-result when no credential is available, no target or the screen
\* frame decodes, the remote call fails, or the body is empty, is not JSON
\* or is the JSON value null.  (Any other JSON body is coerced field by
\* field, whether it conforms to the schema or not.)
C2_NeverRejects ==
  detObs # <<>> =>
    /\ Settled.outcome.settled = "resolved"
    /\ (HardFailure(Settled) \/ Settled.remote.json.t = "null")
         => Settled.outcome.result = ZeroResult

\* a call whose remote call was rejected has resolved to the zero-result
C2_Witness ==
  /\ detObs # <<>>
  /\ Settled.invoked
  /\ Settled.remote.kind = "rejects"
  /\ Settled.outcome = [settled |-> "resolved", result |-> ZeroResult]

\* no data URL of the list decodes
NoneDecodes(urls) == \A i \in 1..Len(urls) : ParseDataUrl(urls[i]) = <<>>

\* C10: with no credential available, zero decodable targets or an
\* undecodable screen frame, the call resolves to the zero-result and the
\* remote service is not invoked.
C10_NoRemoteCall ==
  (/\ detObs # <<>>
   /\ \/ rotRet = <<>>
      \/ NoneDecodes(Settled.args.targets)
      \/ ParseDataUrl(Settled.args.screen) = <<>>)
    => /\ ~Settled.invoked
       /\ Settled.outcome = [settled |-> "resolved", result |-> ZeroResult]

\* a call with a credential and a good screen frame whose two targets both
\* fail to decode has returned without a remote call
C10_Witness ==
  /\ detObs # <<>>
  /\ rotRet # <<>>
  /\ Len(Settled.args.targets) = 2
  /\ NoneDecodes(Settled.args.targets)
  /\ ParseDataUrl(Settled.args.screen) # <<>>
  /\ ~Settled.invoked

(***************************************************************************)
(* Properties of the result of checkFrameForTarget (under SpecDetect).     *)
(***************************************************************************)
\* the result of the settled call and the fields of the body it was made of
Result == Settled.outcome.result
Body == Settled.remote.json
BodyBox == Prop(Body, "box_2d")

\* a JSON number in [0,1] (numbers are in hundredths)
NumIn01(x) == x.t = "number" /\ 0 <= x.n /\ x.n <= 100

\* a JSON number outside [0,1]
NumOutside01(x) == x.t = "number" /\ (x.n < 0 \/ x.n > 100)

\* the call was answered with an object whose box_2d is an array of
\* exactly 4 numbers
FourNumbers ==
  /\ detObs # <<>>
  /\ Settled.invoked
  /\ Settled.remote.kind = "json"
  /\ Body.t = "object"
  /\ BodyBox.t = "array"
  /\ Len(BodyBox.items) = 4
  /\ \A i \in 1..4 : BodyBox.items[i].t = "number"

\* detected and confidence of the result are those of the body, where the
\* body has a boolean and a number there
TakenFromBody ==
  /\ Prop(Body, "detected").t = "boolean"
       => Result.detected = (Prop(Body, "detected").n = 100)
  /\ Prop(Body, "confidence").t = "number"
       => Result.confidence = Prop(Body, "confidence").n

\* C15: every result that carries a bounding box has all four coordinates
\* ymin, xmin, ymax and xmax in [0,1]; a box_2d with any coordinate outside
\* [0,1] yields a result without bounding box.
C15_BoxInRange ==
  /\ (detObs # <<>> /\ Result.boundingBox # <<>>) =>
       /\ NumIn01(Result.boundingBox[1].ymin)
       /\ NumIn01(Result.boundingBox[1].xmin)
       /\ NumIn01(Result.boundingBox[1].ymax)
       /\ NumIn01(Result.boundingBox[1].xmax)
  /\ (FourNumbers /\ \E i \in 1..4 : NumOutside01(BodyBox.items[i])) =>
       Result.boundingBox = <<>>

\* C16: every result has a numeric confidence in [0,1], whatever the
\* confidence field of the response is; a non-numeric or missing
\* confidence yields 0.
C16_ConfidenceInRange ==
  detObs # <<>> =>
    /\ 0 <= Result.confidence /\ Result.confidence <= 100
    /\ (/\ Settled.invoked
        /\ Settled.remote.kind = "json"
        /\ ToNumber(Prop(Body, "confidence")).nan) => Result.confidence = 0

C18_OutOfRangeDropped ==
  (FourNumbers /\ (NumOutside01(BodyBox.items[1]) \/ NumOutside01(BodyBox.items[2]))) =>
    /\ Result.boundingBox = <<>>
    /\ TakenFromBody

\* {detected: true, confidence: 0.9, box_2d: [0.1, 1.2, 0.5, 0.6]} has
\* given detected true and confidence 0.9 without box
C18_Witness ==
  /\ FourNumbers
  /\ Body = JsObject(JsBool(TRUE), JsNum(90),
                     Box(JsNum(10), JsNum(120), JsNum(50), JsNum(60)))
  /\ Result = [detected |-> TRUE, confidence |-> 90, boundingBox |-> <<>>]

\* C28: box_2d is accepted only if it is an array of exactly 4 numbers: a
\* value that is not an array, an array of another length, or an array of
\* 4 elements one of which is not a number yields a result without
\* bounding box.
C28_OnlyFourNumbers ==
  (detObs # <<>> /\ ~FourNumbers) => Result.boundingBox = <<>>

(***************************************************************************)
(* Properties of the frame codec (under SpecDetect).                       *)
(***************************************************************************)
HasComma(url) == \E i \in 1..Len(url) : url[i] = ","

\* what follows the first comma
Payload(url) ==
  LET first == CHOOSE i \in 1..Len(url) :
                 url[i] = "," /\ \A j \in 1..(i - 1) : url[j] # ","
  IN SubSeq(url, first + 1, Len(url))

NotWhitespace(c) == c \notin Whitespace

\* the payload without its whitespace characters
CleanPayload(url) == SelectSeq(Payload(url), NotWhitespace)

Decodes(url) == HasComma(url) /\ CleanPayload(url) # <<>>

\* the payloads of the URLs that decode, in order
CleanPayloads(urls) ==
  LET good == SelectSeq(urls, Decodes)
  IN [i \in 1..Len(good) |-> CleanPayload(good[i])]

\* the data of the image parts of a request
PartsData(parts) == [i \in 1..(Len(parts) - 1) |-> parts[i].image.data]

\* C19: the data-URL decode gives none when the input has no comma or
\* when the payload after the first comma is empty once its whitespace is
\* removed; otherwise it gives the payload with every whitespace character
\* removed and nothing else changed.  (Seen in the request of a call: its
\* image parts are the targets that decode and the screen frame, and a
\* call whose screen frame does not decode makes no request.)
C19_Decode ==
  /\ inflight # <<>> =>
       /\ Decodes(inflight[1].args.screen)
       /\ PartsData(inflight[1].parts) =
            CleanPayloads(inflight[1].args.targets) \o
            <<CleanPayload(inflight[1].args.screen)>>
  /\ (detObs # <<>> /\ ~Decodes(Settled.args.screen)) => ~Settled.invoked

\* the request made for the screen frame ",Q ,R" and the targets
\* "data:p;b, \n" and "data:p;b,QR" carries QR and Q,R
C19_Witness ==
  /\ inflight # <<>>
  /\ inflight[1].args.screen = BareUrl
  /\ inflight[1].args.targets = <<BlankPayloadUrl, PngUrl>>
  /\ PartsData(inflight[1].parts) = << <<"Q", "R">>, <<"Q", ",", "R">> >>

\* the targets of a call that decode, in upload order
Decoded(urls) == SelectSeq(urls, Decodes)

\* the request of the call in flight
Request == inflight[1].parts
Asked == inflight[1].args

\* C29: the request of a call holds exactly one image part per target that
\* decodes, in upload order, the targets that do not decode being left
\* out; then exactly one image part for the screen frame; then one text
\* part, whose target count is the number of targets that decoded.  A call
\* that was issued a client makes the request whenever at least one target
\* and the screen frame decode.
C29_Request ==
  /\ inflight # <<>> =>
       LET n == Len(Decoded(Asked.targets)) IN
         /\ n >= 1
         /\ Len(Request) = n + 2
         /\ \A i \in 1..(n + 1) : Request[i].kind = "inlineData"
         /\ \A i \in 1..n :
              Request[i].image.data = CleanPayload(Decoded(Asked.targets)[i])
         /\ Request[n + 1].image.data = CleanPayload(Asked.screen)
         /\ Request[n + 2].kind = "text"
         /\ Request[n + 2].count = n
  /\ (detObs # <<>> /\ ~Settled.invoked) =>
       \/ ParseKeys(Settled.args.apiKeyString) = <<>>
       \/ Decoded(Settled.args.targets) = <<>>
       \/ ~Decodes(Settled.args.screen)

\* of the targets "data:p" and "data:p;b,QR" the second alone is sent,
\* before the screen frame, and the text counts one target
C29_Witness ==
  /\ inflight # <<>>
  /\ Asked.targets = <<NoCommaUrl, PngUrl>>
  /\ Asked.screen = PngUrl
  /\ Len(Request) = 3
  /\ Request[3].kind = "text"
  /\ Request[3].count = 1

\* what stands before the first comma of a URL that has one
Meta(url) == SubSeq(url, 1, Len(url) - Len(Payload(url)) - 1)

\* what follows "data:" in the metadata, and its characters up to the
\* first semicolon (all of them when it has none)
AfterColon(url) == SubSeq(Meta(url), Len(DataColon) + 1, Len(Meta(url)))
HasSemicolon(url) == \E j \in 1..Len(AfterColon(url)) : AfterColon(url)[j] = ";"
TypeRun(url) ==
  LET rest == AfterColon(url)
      n    == CHOOSE k \in 0..Len(rest) :
                /\ \A j \in 1..k : rest[j] # ";"
                /\ k = Len(rest) \/ rest[k + 1] = ";"
  IN SubSeq(rest, 1, n)

\* the type that a match on 'data:<type>;' finds, image/jpeg without one
SemicolonMime(url) ==
  IF StartsWith(Meta(url), DataColon) /\ TypeRun(url) # <<>> /\ HasSemicolon(url)
  THEN TypeRun(url) ELSE ImageJpeg

\* the type that a match on 'data:<type>' finds, the type ending at the
\* first semicolon or at the comma; image/jpeg without one
PrefixMime(url) ==
  IF StartsWith(Meta(url), DataColon) /\ TypeRun(url) # <<>>
  THEN TypeRun(url) ELSE ImageJpeg

\* the image part of the screen frame in the request in flight
ScreenPart == Request[Len(Request) - 1].image

\* C31 as stated: the mime type of a decoded data URL is the type found
\* by a prefix match on 'data:<type>;' before the first comma, and
\* image/jpeg when there is no 'data:' prefix, the type is empty or no
\* semicolon follows the type; the payload is everything after the first
\* comma.
C31_Original ==
  inflight # <<>> =>
    /\ ScreenPart.mimeType = SemicolonMime(Asked.screen)
    /\ ScreenPart.data = CleanPayload(Asked.screen)

\* C31, amended: the mime type of a decoded data URL is what stands
\* between 'data:' and the first semicolon of the part before the first
\* comma, or all that follows 'data:' there when it has no semicolon; it is
\* image/jpeg when there is no 'data:' prefix or nothing between the colon
\* and the semicolon or comma.  The payload is everything after the first
\* comma, later commas included (without its whitespace).  This holds for
\* the screen frame and for every target that decodes.
C31_Mime ==
  inflight # <<>> =>
    /\ ScreenPart.mimeType = PrefixMime(Asked.screen)
    /\ ScreenPart.data = CleanPayload(Asked.screen)
    /\ \A i \in 1..Len(Decoded(Asked.targets)) :
         Request[i].image.mimeType = PrefixMime(Decoded(Asked.targets)[i])

\* the request made for the screen frame "data:p,Q" carries the type p
C31_Witness ==
  /\ inflight # <<>>
  /\ Asked.screen = NoSemicolonUrl
  /\ ScreenPart = [mimeType |-> <<"p">>, data |-> <<"Q">>]

\* a step in which checkFrameForTarget is called
CallStep ==
  /\ inflight = <<>> /\ detObs = <<>>
  /\ inflight' # <<>> \/ detObs' # <<>>

\* the index that the call's rotation starts from: 0 when the call's
\* string replaced the cached one
StartIndex == IF rotChanged THEN 0 ELSE rotPrevIndex

\* C35: every checkFrameForTarget call whose credential string gives a
\* non-empty pool moves the rotation index on by exactly one position
\* (modulo the pool length, from 0 when the string is a new one) and is
\* handed the credential of the position it started from, whether or not
\* it goes on to the remote service: a call that returns the zero-result
\* for its images has moved the index all the same.  Nothing else moves
\* the index: the answer of the remote service and the return do not.
C35_AdvancesOnce ==
  /\ [][(CallStep /\ rotArg' # <<>> /\ parsedKeys' # <<>>) =>
          /\ rotRet' = <<parsedKeys'[StartIndex' + 1]>>
          /\ currentKeyIndex' = (StartIndex' + 1) % Len(parsedKeys')
          /\ StartIndex' = IF rotArg' = lastApiKeyString THEN currentKeyIndex
                           ELSE 0]_vars
  /\ [][~CallStep => currentKeyIndex' = currentKeyIndex]_vars
  /\ []((detObs # <<>> /\ ~Settled.invoked /\ parsedKeys # <<>>
          /\ Settled.args.apiKeyString # <<>>) =>
          /\ rotRet # <<>>
          /\ currentKeyIndex = (StartIndex + 1) % Len(parsedKeys))

\* a call with the pool a, b and no target that decodes has returned the
\* zero-result without a remote call, and the index has moved from 0 to 1
C35_Witness ==
  /\ detObs # <<>>
  /\ ~Settled.invoked
  /\ parsedKeys = << <<"a">>, <<"b">> >>
  /\ rotRet = << <<"a">> >>
  /\ rotPrevIndex = 0
  /\ currentKeyIndex = 1

(***************************************************************************)
(* Properties of App (checked under Spec and SpecHandlers).                *)
(***************************************************************************)
\* the entry appended last to the log
LastLog == logs[Len(logs)]
LastMessage == IF logs = <<>> THEN "" ELSE LastLog.message

\* no interval timer is running
NoTimer == intervalRef # "live" /\ orphanTimers = 0

\* C1: at most one checkFrameForTarget call is in flight at any time: the
\* number of calls awaiting the remote answer is 0 or 1, and it is 1 only
\* while isProcessingRef is set.
C1_SingleFlight ==
  /\ Len(inflight) <= 1
  /\ Len(inflight) = 1 => isProcessingRef

\* a call is in flight while the timer that would start the next is running
C1_Witness ==
  /\ Len(inflight) = 1
  /\ isProcessingRef
  /\ intervalRef = "live"
  /\ status = "MONITORING"

\* the messages toggleMonitoring logs, and those of its three rejections
ToggleMessages ==
  { "Gemini API Key is required", "Start screen capture first",
    "Upload a target image first", "Monitoring active", "Monitoring paused" }

\* a step of toggleMonitoring: it alone appends these messages
ToggleStep == logs' # logs /\ LastMessage' \in ToggleMessages

\* toggleMonitoring is about to be rejected
Rejectable ==
  /\ status \in {"IDLE", "PAUSED"}
  /\ config.apiKey = <<>> \/ stream = "null" \/ Len(targetImages) = 0

\* C3 as stated: toggleMonitoring from IDLE or PAUSED with an empty
\* credential config, no stream or zero targets leaves the status as it
\* was, creates no timer and appends a log entry of type 'warning'.
C3_Original ==
  [][(Rejectable /\ ToggleStep) =>
       /\ status' = status
       /\ intervalRef' = intervalRef /\ NoTimer'
       /\ LastLog'.type = "warning"]_vars

\* C3, amended: toggleMonitoring from IDLE or PAUSED with an empty
\* credential config, no stream or zero targets leaves the status as it
\* was, creates no timer and appends a log entry: of type 'error' when the
\* credential config is empty, of type 'warning' otherwise.
C3_Rejected ==
  [][(Rejectable /\ ToggleStep) =>
       /\ status' = status
       /\ intervalRef' = intervalRef /\ NoTimer'
       /\ LastLog'.type = IF config.apiKey = <<>> THEN "error" ELSE "warning"]_vars

\* monitoring was paused, the credentials cleared, and the toggle rejected
C3_Witness ==
  /\ LastMessage = "Gemini API Key is required"
  /\ LastLog.type = "error"
  /\ status = "PAUSED"
  /\ stream # "null"
  /\ Len(targetImages) > 0

\* what a stop leaves: no timer, the track stopped and no stream held, the
\* overlay clear, the status IDLE
Stopped ==
  /\ NoTimer
  /\ track # "live"
  /\ stream = "null"
  /\ overlay = "clear"
  /\ status = "IDLE"

\* C4: after stopMonitoring, run by the stop button from any status while
\* a stream is held, with or without a detection in flight, the timer is
\* cancelled, every track is stopped and stream is null, the overlay is
\* clear and the status is IDLE.  (stopMonitoring logs "Monitoring stopped"
\* last.)
C4_StopReleases == LastMessage = "Monitoring stopped" => Stopped

\* stop was pressed while a detection was in flight
C4_Witness ==
  /\ Len(logs) = 2
  /\ logs[1].message = "Analyzing frame..."
  /\ logs[2].message = "Monitoring stopped"
  /\ Len(inflight) = 1
  /\ Stopped

\* C5: the 'ended' event of the capture track is handled as an explicit
\* stop: afterwards the timer is cancelled, the tracks are released and
\* stream is null, the overlay is clear and the status is IDLE.  (The
\* handler logs "Screen sharing ended by user" last.)
C5_EndedLikeStop == LastMessage = "Screen sharing ended by user" => Stopped

\* a timer is running whose tick would go through to the remote call if
\* the busy flag were clear
TickWouldCall ==
  /\ intervalRef = "live"
  /\ status = "MONITORING"
  /\ stream # "null" /\ track = "live"
  /\ Len(targetImages) > 0
  /\ config.apiKey # <<>>

\* a step that issues a detection call, and one in which a call completes
Issues == Len(inflight') > Len(inflight)
Completes == Len(inflight') < Len(inflight)

\* C14: a checkFrame that finds the busy flag set is a no-op: whatever the
\* video and the canvas are, it leaves the whole state as it was (no call,
\* no log entry, busy flag, overlay, status and rotation index unchanged).
\* It is dropped, not queued: a call is issued only by a step that found
\* the flag clear, one call per step, and the step in which a call
\* completes issues none and leaves the rotation index alone.
C14_BusyTickDropped ==
  /\ [](isProcessingRef =>
          \A env \in FrameEnvs : CheckFrame(World, Closure(World), env) = World)
  /\ [][/\ Issues => (~isProcessingRef /\ Len(inflight') = Len(inflight) + 1)
        /\ Completes => (inflight' = <<>> /\ currentKeyIndex' = currentKeyIndex)]_vars

\* the timer fires on a playing video while a call is in flight
C14_Witness ==
  /\ isProcessingRef
  /\ Len(inflight) = 1
  /\ TickWouldCall

LoopEnds == status = "MONITORING" /\ (status' # "MONITORING" \/ stream' # stream)

\* a step in which a checkFrame found the credential config empty, logged
\* the error and called stopMonitoring (lines 237-241)
KeyMissingStop ==
  /\ config'.apiKey = <<>>
  /\ Len(logs') >= 2
  /\ logs'[Len(logs') - 1].message = "API Key missing. Check settings."
  /\ logs'[Len(logs')].message = "Monitoring stopped"

\* C12 as stated: while the status is MONITORING, the status leaves
\* MONITORING or the stream is released only by the toggle button, the stop
\* button or the end of the capture track; no step of the detection path
\* does it.
C12_Original ==
  [][LoopEnds => (ToggleClick \/ StopClick \/ TrackEnded)]_vars

\* C12, amended: while the status is MONITORING, the status leaves
\* MONITORING or the stream is released only by the toggle button, the stop
\* button, the end of the capture track, or a checkFrame that finds the
\* credential config empty and calls stopMonitoring; no other step of the
\* detection path (a tick, a decode failure, a remote failure, a result)
\* does it.
C12_LoopEnds ==
  [][LoopEnds => (ToggleClick \/ StopClick \/ TrackEnded \/ KeyMissingStop)]_vars

\* the credentials were cleared while monitoring and checkFrame stopped it
C12_Witness ==
  /\ Len(logs) = 2
  /\ logs[1].message = "API Key missing. Check settings."
  /\ logs[2].message = "Monitoring stopped"
  /\ config.apiKey = <<>>
  /\ status = "IDLE"
  /\ stream = "null"
  /\ Len(targetImages) > 0

\* C20: every checkFrame that sets the busy flag clears it in the end,
\* whatever the detection gives (a result, the zero-result, a failure); a
\* checkFrame whose capture throws or finds no 2D context has cleared the
\* flag when it returns, and the exception is caught and logged: after
\* "Frame check failed" the flag is clear and no call is in flight.
C20_BusyCleared ==
  /\ isProcessingRef ~> ~isProcessingRef
  /\ [](LastMessage = "Frame check failed" => (~isProcessingRef /\ inflight = <<>>))

\* a call has reported the target and the flag was cleared; the capture of
\* the next tick threw, was logged, and the flag is clear
C20_Witness ==
  /\ Len(logs) = 2
  /\ logs[1].message = "Target Detected!"
  /\ logs[2].message = "Frame check failed"
  /\ ~isProcessingRef
  /\ status = "MONITORING"

\* the call in flight, the result that `remote` gives it, and whether the
\* checkFrame that made the call takes that result for the target
Pending == inflight[1]
ResultOf(remote) == FinishCheck(remote).result
Hit(remote) ==
  /\ ResultOf(remote).detected
  /\ ResultOf(remote).confidence >= Pending.caller.confidenceThreshold

\* the log with a 'success' entry appended that carries the confidence
WithSuccess(remote) ==
  Append(LastN(logs, LogKeep - 1),
         [message |-> "Target Detected!", type |-> "success",
          confidence |-> <<ResultOf(remote).confidence>>])

\* C11 as stated: when a detection completes with detected true and a
\* confidence at or above the threshold, a 'success' entry carrying the
\* confidence is appended, the alert is triggered and the overlay shows
\* the box; in every other case no alert is triggered, no entry is
\* appended and the overlay is clear.
C11_Original ==
  [][\A remote \in AppRemoteOutcomes :
       (Completes /\ SettleWith(1, remote)) =>
         IF Hit(remote)
         THEN logs' = WithSuccess(remote) /\ alertObs' /\ overlay' = "box"
         ELSE logs' = logs /\ ~alertObs' /\ overlay' = "clear"]_vars

\* C11, amended: when a detection completes with detected true and a
\* confidence at or above the threshold of the checkFrame that made the
\* call, a 'success' entry carrying the confidence is appended, the alert
\* is triggered if and only if sound was enabled for that checkFrame, and
\* the overlay, if the video is still shown, shows the box when the result
\* has one and is cleared when it has none; in every other case no alert
\* is triggered, no entry is appended and the overlay is clear.
C11_Reaction ==
  [][\A remote \in AppRemoteOutcomes :
       (Completes /\ SettleWith(1, remote)) =>
         IF Hit(remote)
         THEN /\ logs' = WithSuccess(remote)
              /\ alertObs' = Pending.caller.soundEnabled
              /\ overlay' = IF stream = "null" THEN overlay
                            ELSE IF ResultOf(remote).boundingBox = <<>>
                            THEN "clear" ELSE "box"
         ELSE logs' = logs /\ ~alertObs' /\ overlay' = "clear"]_vars

\* a detection has completed above the threshold with sound disabled: the
\* entry is there and the box is drawn, and no alert was triggered
C11_Witness ==
  /\ LastMessage = "Target Detected!"
  /\ LastLog.confidence = <<60>>
  /\ overlay = "box"
  /\ ~alertObs
  /\ ~config.soundEnabled
  /\ status = "MONITORING"

\* C21: a failed remote call does not end monitoring.  The step in which a
\* call completes, whatever its result, leaves the status MONITORING, the
\* timer running and the stream held; and if from some point on the timer,
\* the stream, the targets and the credentials remain, detection calls are
\* issued and answered again and again.
C21_LoopContinues ==
  /\ [][(Completes /\ status = "MONITORING") =>
          /\ status' = "MONITORING"
          /\ intervalRef' = intervalRef
          /\ stream' = stream /\ track' = track]_vars
  /\ <>[]TickWouldCall => ([]<>(inflight # <<>>) /\ []<>(inflight = <<>>))

\* a call was answered without a 'success' entry (it failed, or stayed
\* below the threshold), and a new call has been issued after it
C21_Witness ==
  /\ Len(logs) = 2
  /\ logs[1].message = "Analyzing frame..."
  /\ logs[2].message = "Analyzing frame..."
  /\ Len(inflight) = 1
  /\ TickWouldCall

\* the toggle button would start the monitoring, on a playing video and
\* with no call in flight
CanStart ==
  /\ status \in {"IDLE", "PAUSED"}
  /\ config.apiKey # <<>>
  /\ stream # "null" /\ track = "live"
  /\ Len(targetImages) > 0
  /\ ~isProcessingRef

\* what the toggle and the render after it leave, on a playing video
Started == RenderPass(World, ToggleMonitoring(World), ReadyEnv)

\* C22: whenever the status is MONITORING with a stream and at least one
\* target, a timer is running, and only then; entering that state on a
\* playing video issues one check at once and starts the timer; and at
\* most one timer is running at any time: whatever is changed (interval,
\* targets, stream), no timer is left running beside the one the effect
\* holds.
C22_OneTimer ==
  /\ ShouldRun(World) <=> intervalRef = "live"
  /\ orphanTimers = 0
  /\ CanStart =>
       /\ Started.status = "MONITORING"
       /\ Len(Started.inflight) = 1
       /\ Started.intervalRef = "live"
       /\ Started.orphanTimers = 0

\* monitoring was started with the interval set to 1000 ms: the timer is
\* running, alone, and the check the effect ran at once has issued a call
C22_Witness ==
  /\ status = "MONITORING"
  /\ config.checkInterval = OtherInterval
  /\ intervalRef = "live"
  /\ orphanTimers = 0
  /\ Len(logs) = 2
  /\ logs[1].message = "Monitoring active"
  /\ logs[2].message = "Analyzing frame..."
  /\ Len(inflight) = 1

\* the entry preconditions that toggleMonitoring checks
EntryAllowed ==
  config.apiKey # <<>> /\ stream # "null" /\ Len(targetImages) > 0

\* what toggleMonitoring and the render after it leave
Toggled == RenderPass(World, ToggleMonitoring(World), ReadyEnv)

\* C23: toggleMonitoring while MONITORING sets the status to PAUSED, the
\* timer is torn down and the capture stream is retained, its tracks not
\* stopped; the status becomes PAUSED in no other way.  toggleMonitoring
\* from PAUSED checks the entry preconditions (credential config, stream,
\* at least one target) again: it sets the status to MONITORING if all of
\* them hold and leaves it PAUSED otherwise, and the status goes from
\* PAUSED to MONITORING only when they hold.
C23_PauseResume ==
  /\ [](status = "MONITORING" =>
          /\ Toggled.status = "PAUSED"
          /\ Toggled.intervalRef # "live" /\ Toggled.orphanTimers = 0
          /\ Toggled.stream = stream /\ Toggled.track = track)
  /\ [](status = "PAUSED" =>
          ToggleMonitoring(World).status =
            IF EntryAllowed THEN "MONITORING" ELSE "PAUSED")
  /\ [][(status # "PAUSED" /\ status' = "PAUSED") =>
          /\ status = "MONITORING"
          /\ NoTimer'
          /\ stream' = stream /\ stream' # "null"
          /\ track' = track]_vars
  /\ [][(status = "PAUSED" /\ status' = "MONITORING") =>
          (EntryAllowed /\ stream' = stream)]_vars

\* monitoring was paused and resumed: the stream is the one held before
\* and a timer is running again
C23_Witness ==
  /\ Len(logs) = 2
  /\ logs[1].message = "Monitoring paused"
  /\ logs[2].message = "Monitoring active"
  /\ status = "MONITORING"
  /\ stream # "null" /\ track = "live"
  /\ intervalRef = "live"

\* the entries that a checkFrame appends
CheckMessages ==
  { "API Key missing. Check settings.", "Analyzing frame...",
    "Target Detected!", "Frame check failed" }

\* every entry of a check in the log is the last "Analyzing frame..." entry
\* or stands before it
NoneAfterAnalyzing ==
  \A i \in 1..Len(logs) :
    logs[i].message \in CheckMessages =>
      \E j \in i..Len(logs) : logs[j].message = "Analyzing frame..."

\* C24: the entries of the checks are appended in the order of the checks.
\* A check's "Analyzing frame..." entry is appended when its call is
\* issued, hence before its result entry, which is appended when the call
\* completes; and while the call is pending no check appends an entry: the
\* log holds no entry of a check after the pending check's "Analyzing
\* frame..." entry, and a step that appends to the log appends no entry of
\* a check other than the pending check's result.
C24_LogOrder ==
  /\ [](inflight # <<>> => NoneAfterAnalyzing)
  /\ [][CallIssued => LastMessage' = "Analyzing frame..."]_vars
  /\ [][(logs' # logs /\ LastMessage' = "Target Detected!") => Completes]_vars
  /\ [][(inflight # <<>> /\ logs' # logs) =>
          /\ LastMessage' \in CheckMessages =>
               (Completes /\ LastMessage' = "Target Detected!")
          /\ inflight' # <<>> => NoneAfterAnalyzing']_vars

\* a check has logged its analysis and then its result
C24_Witness ==
  /\ Len(logs) = 2
  /\ logs[1].message = "Analyzing frame..."
  /\ logs[2].message = "Target Detected!"
  /\ inflight = <<>>
  /\ ~isProcessingRef

\* entries that addLog may be given
LogEntries ==
  { [message |-> "Analyzing frame...", type |-> "info", confidence |-> <<>>],
    [message |-> "Target Detected!", type |-> "success",
     confidence |-> <<DefaultThreshold>>] }

\* the log that addLog leaves when called in the current state
AfterAddLog(e) == AddLog(World, e.message, e.type, e.confidence).logs

\* the log xs with the k entries of new at its end, after as many of the
\* oldest entries of old as the window has room for, in their order
Shifted(old, xs, k) ==
  LET n    == Len(xs)
      kept == n - k
  IN /\ n = IF Len(old) + k <= LogKeep THEN Len(old) + k ELSE LogKeep
     /\ \A i \in 1..kept : xs[i] = old[Len(old) - kept + i]

LateCompletion(remote) ==
  /\ Completes
  /\ status # "MONITORING"
  /\ SettleWith(1, remote)

\* C27 as stated: pause and stop do not cancel a pending detection call,
\* and when it completes with the target detected at or above the
\* threshold while the status is PAUSED or IDLE, a success entry is
\* appended and the alert is triggered.
C27_Original ==
  /\ [][(inflight # <<>> /\ ~Completes) => inflight' = inflight]_vars
  /\ [][\A remote \in AppRemoteOutcomes :
          (LateCompletion(remote) /\ Hit(remote)) =>
            (logs' = WithSuccess(remote) /\ alertObs')]_vars

\* C27, amended: no step other than its completion removes a pending
\* detection call, so pause and stop do not cancel it and leave the busy
\* flag set.  When it completes after monitoring was left, the status stays
\* as it is, and if the result reports the target with a confidence at or
\* above the threshold of the checkFrame that made the call, a success
\* entry is appended, the alert is triggered if sound was enabled for that
\* checkFrame, and, when the video is still shown and the result has a box,
\* the overlay shows it.
C27_NotCancelled ==
  /\ [][(inflight # <<>> /\ ~Completes) =>
          (inflight' = inflight /\ isProcessingRef')]_vars
  /\ [][\A remote \in AppRemoteOutcomes :
          LateCompletion(remote) =>
            /\ status' = status
            /\ Hit(remote) =>
                 /\ logs' = WithSuccess(remote)
                 /\ alertObs' = Pending.caller.soundEnabled
                 /\ (stream # "null" /\ ResultOf(remote).boundingBox # <<>>)
                      => overlay' = "box"]_vars

\* monitoring was paused during a call, and the call has then reported the
\* target: the entry follows the pause, the alert sounds and the box is
\* drawn while the status is PAUSED
C27_Witness ==
  /\ status = "PAUSED"
  /\ Len(logs) = 2
  /\ logs[1].message = "Monitoring paused"
  /\ logs[2].message = "Target Detected!"
  /\ alertObs
  /\ overlay = "box"

\* the entry that the startup found is an entry that JSON.parse accepts
LoadedEntry == loadObs # <<>> /\ JsonParse(loadObs[1]).ok

\* C26: the persisted entry follows the config.  After every change of
\* apiKey, checkInterval, confidenceThreshold or soundEnabled, once the
\* effects have run, the entry is the JSON text of the current config;
\* parsing that text gives the current config back, so that loading the
\* page again starts with the same config and leaves the entry as it is;
\* and the config starts as the default one (no credential, 3000 ms,
\* 0.85, sound on) exactly when there was no entry or the entry did not
\* parse.
C26_Persisted ==
  /\ [](GetItem(stored) = <<JsonStringify(config)>>)
  /\ [](LoadConfig(GetItem(stored)) = [config |-> config, defaults |-> FALSE])
  /\ [](LoadConfig(loadObs).defaults <=> ~LoadedEntry)
  /\ [](~LoadedEntry =>
         LoadConfig(loadObs).config =
           [apiKey |-> <<>>, checkInterval |-> 3000,
            confidenceThreshold |-> 85, soundEnabled |-> TRUE])
  /\ [][Reload => (config' = config /\ stored' = stored)]_vars

\* the config of an earlier session was changed and the page loaded
\* again: the startup found the entry of the changed config, whose
\* credential has a quote
C26_Witness ==
  /\ LoadedEntry
  /\ loadObs = GetItem(stored)
  /\ config.apiKey = EarlierKey
  /\ config.checkInterval = OtherInterval
  /\ config.soundEnabled

\* C32: a null capture stream implies the status IDLE: MONITORING and
\* PAUSED are never seen without a held stream.  The stream becomes null
\* only in a step that leaves the status IDLE (stopMonitoring), and the
\* status leaves IDLE only while a stream is held, which that step keeps.
C32_NullStreamIdle ==
  /\ [](stream = "null" => status = "IDLE")
  /\ [][(stream # "null" /\ stream' = "null") => status' = "IDLE"]_vars
  /\ [][(status = "IDLE" /\ status' # "IDLE") =>
          (stream # "null" /\ stream' = stream)]_vars

\* monitoring was paused and then stopped: the stream is released and the
\* status is IDLE
C32_Witness ==
  /\ Len(logs) = 2
  /\ logs[1].message = "Monitoring paused"
  /\ logs[2].message = "Monitoring stopped"
  /\ stream = "null"
  /\ status = "IDLE"

\* an interval timer is running
TimerActive == intervalRef = "live" \/ orphanTimers > 0

\* C33: after every step, effects included, an interval timer is running
\* if and only if the status is MONITORING, the stream is held and there
\* is at least one target.  Removing the last target while MONITORING
\* leaves the status MONITORING and no timer; and a detection call is
\* issued only in a step that leaves the status MONITORING, none while it
\* is IDLE or PAUSED.
C33_TimerIff ==
  /\ [](TimerActive <=>
         (status = "MONITORING" /\ stream # "null" /\ Len(targetImages) > 0))
  /\ [][(status = "MONITORING" /\ targetImages # <<>> /\ targetImages' = <<>>)
          => (status' = "MONITORING" /\ ~TimerActive')]_vars
  /\ [][CallIssued => (status' = "MONITORING" /\ TimerActive')]_vars

\* the only target was removed while monitoring: the status is still
\* MONITORING and no timer is running
C33_Witness ==
  /\ status = "MONITORING"
  /\ stream # "null"
  /\ targetImages = <<>>
  /\ LastMessage = "Target image removed"
  /\ ~TimerActive

\* a timer is running whose checkFrame finds no credential and at least
\* one target
KeylessTick ==
  /\ intervalRef = "live"
  /\ config.apiKey = <<>>
  /\ Len(targetImages) > 0

\* what a tick leaves, on the video and canvas of env
Ticked(env) == CheckFrame(World, Closure(World), env)

\* the state holds the error entry and the entry of stopMonitoring, and
\* monitoring is stopped: status IDLE, stream released, no timer
StoppedForKey(w) ==
  /\ w.logs[Len(w.logs) - 1].message = "API Key missing. Check settings."
  /\ w.logs[Len(w.logs) - 1].type = "error"
  /\ w.logs[Len(w.logs)].message = "Monitoring stopped"
  /\ w.status = "IDLE"
  /\ w.stream = "null" /\ w.track = "ended"
  /\ w.intervalRef # "live"

\* C34: a tick that finds no credential, the busy flag clear and at least
\* one target logs the error and stops monitoring (status IDLE, stream
\* released, timer cleared), whatever the video shows, without setting the
\* busy flag and without issuing a call or advancing the rotation; a tick
\* that finds the busy flag set returns before it looks at the credential:
\* it logs nothing and leaves status, stream and timer as they are.  So
\* the step that logs the error and stops found the busy flag clear and no
\* call in flight and leaves them so, and the error entry is never left as
\* the last one.
C34_KeylessTick ==
  /\ []((KeylessTick /\ ~isProcessingRef) =>
          \A env \in FrameEnvs :
            /\ StoppedForKey(Ticked(env))
            /\ ~Ticked(env).isProcessingRef
            /\ Ticked(env).inflight = inflight
            /\ Ticked(env).rot = Rotator)
  /\ []((KeylessTick /\ isProcessingRef) =>
          \A env \in FrameEnvs :
            /\ Ticked(env).logs = logs
            /\ Ticked(env).status = status
            /\ Ticked(env).stream = stream
            /\ Ticked(env).intervalRef = intervalRef)
  /\ [][(logs' # logs /\ KeyMissingStop) =>
          /\ ~isProcessingRef /\ ~isProcessingRef'
          /\ inflight = <<>> /\ inflight' = <<>>
          /\ status' = "IDLE" /\ stream' = "null"]_vars
  /\ [][logs' # logs => LastMessage' # "API Key missing. Check settings."]_vars

\* the credentials were cleared during a call; after the call was
\* answered the next tick has stopped the monitoring
C34_Witness ==
  /\ Len(logs) = 2
  /\ logs[1].message = "API Key missing. Check settings."
  /\ logs[2].message = "Monitoring stopped"
  /\ config.apiKey = <<>>
  /\ status = "IDLE" /\ stream = "null"
  /\ ~isProcessingRef /\ inflight = <<>>
  /\ currentKeyIndex = 1


\* a pending call completes with remote
CompletesWith(remote) == Completes /\ SettleWith(1, remote)

\* what drawBoundingBox(result.boundingBox) leaves on the overlay
OverlayAfter(remote) ==
  IF stream = "null" THEN overlay
  ELSE IF ResultOf(remote).boundingBox = <<>> THEN "clear" ELSE "box"

\* C36 as stated: the alert is played only when config.soundEnabled is
\* true; with sound disabled, a detection with detected true and a
\* confidence at or above the threshold still appends the success entry
\* and draws the overlay, but playAlert is not called.
C36_Original ==
  [][\A remote \in AppRemoteOutcomes :
       CompletesWith(remote) =>
         /\ alertObs' => config.soundEnabled
         /\ (Hit(remote) /\ ~config.soundEnabled) =>
              /\ logs' = WithSuccess(remote)
              /\ overlay' = "box"
              /\ ~alertObs']_vars

\* C36, amended: playAlert is called only by a checkFrame that completes
\* a detection and whose own config (the one of the render that made the
\* call) has soundEnabled true.  When that config has sound disabled, a
\* detection with detected true and a confidence at or above the threshold
\* still appends the success entry and passes the result's box to
\* drawBoundingBox (the overlay shows the box if the result has one and
\* is cleared if it has none, while the video is shown), and playAlert is
\* not called.  The setting on screen at completion does not count: a
\* call made with sound enabled plays the alert after sound was switched
\* off.
C36_SoundGate ==
  /\ [][alertObs' => (Completes /\ Pending.caller.soundEnabled)]_vars
  /\ [][\A remote \in AppRemoteOutcomes :
          (CompletesWith(remote) /\ Hit(remote)) =>
            IF Pending.caller.soundEnabled
            THEN alertObs'
            ELSE /\ logs' = WithSuccess(remote)
                 /\ overlay' = OverlayAfter(remote)
                 /\ ~alertObs']_vars

\* a frame was sent with sound disabled and the answer reported the
\* target with a box: the entry follows the frame's, the box is drawn, the
\* busy flag is clear again and no alert was played
C36_Witness ==
  /\ Len(logs) >= 2
  /\ logs[Len(logs) - 1].message = "Analyzing frame..."
  /\ LastLog.type = "success"
  /\ LastLog.confidence = <<60>>
  /\ overlay = "box"
  /\ ~alertObs
  /\ ~config.soundEnabled
  /\ ~isProcessingRef
  /\ inflight = <<>>


\* the result that remote gives reports the target above the threshold
\* and carries no box
HitWithoutBox(remote) ==
  /\ Hit(remote)
  /\ ResultOf(remote).boundingBox = <<>>

\* C37 as stated: when a detection is above the threshold and its result
\* carries no bounding box, the success entry is appended, the alert is
\* triggered and the overlay ends up cleared.
C37_Original ==
  [][\A remote \in AppRemoteOutcomes :
       (CompletesWith(remote) /\ HitWithoutBox(remote)) =>
         /\ logs' = WithSuccess(remote)
         /\ alertObs'
         /\ overlay' = "clear"]_vars

\* C37, amended: when a detection is above the threshold and its result
\* carries no bounding box (box_2d missing, or rejected by the
\* validation), the success entry is appended, the alert is triggered if
\* sound is enabled in the config of the checkFrame that made the call and
\* not otherwise, and the overlay ends up cleared, also when it showed the
\* box of an earlier detection.  A response whose box_2d is rejected gives
\* the same result as one without box_2d.
C37_HitWithoutBox ==
  /\ [][\A remote \in AppRemoteOutcomes :
          (CompletesWith(remote) /\ HitWithoutBox(remote)) =>
            /\ logs' = WithSuccess(remote)
            /\ alertObs' = Pending.caller.soundEnabled
            /\ overlay' = "clear"]_vars
  /\ [](\E remote \in AppRemoteOutcomes :
          /\ remote.kind = "json"
          /\ remote.json.props[1].box_2d # JsUndefined
          /\ ResultOf(remote) =
               [detected |-> TRUE, confidence |-> 60, boundingBox |-> <<>>])

\* a detection without box has been answered after one with a box: the
\* second success entry is there, the alert was played and the overlay
\* that showed the first box is clear
C37_Witness ==
  /\ Len(logs) >= 2
  /\ logs[Len(logs) - 1].type = "success"
  /\ LastLog.type = "success"
  /\ alertObs
  /\ overlay = "clear"
  /\ status = "MONITORING"
  /\ stream # "null"

====
